---- MODULE Spec2Model ----
(***************************************************************************)
(* Model of the clustered DNA damage scorer (ScoreClusteredDNADamage):     *)
(* accumulation of energy deposits (ProcessHits), the end-of-event pass    *)
(* (UserHookForEndOfEvent) and its helpers RecordSimpleDamage,             *)
(* RecordDSB1D, CombineSimpleDamage, RecordClusteredDamage, RecordCluster  *)
(* and AddDamageToCluster.                                                 *)
(*                                                                         *)
(* Energies are G4double values, written in units of 0.5 eV (17.5 eV = 35) *)
(* and kept to MantissaBits significant binary digits: a sum is rounded to *)
(* the nearest such value, ties to even, as the addition of two doubles    *)
(* is.  A std::map is a function whose DOMAIN is the set of keys present;  *)
(* a std::vector is a sequence (1-based here, 0-based in the source).      *)
(***************************************************************************)
EXTENDS Integers, Sequences, FiniteSets, TLC

VARIABLES
    \* the parameters the parameter manager holds, name -> value
    fPm,
    \* the step handed to ProcessHits by the single-call specification: energy deposit,
    \* volume copy number, fibre copy number, split track id
    aStep,
    \* the steps handed to ProcessHits, in order, by the event specification
    stepsOfEvent,
    \* configuration (constructor)
    fThresDistForDSB, fThresEdepForSSB, fThresEdepForBD, fThresDistForCluster,
    fNbOfAlgo,
    \* accumulated energy, fibre -> split -> bp -> energy
    fGenVEdepStrand1Backbone, fGenVEdepStrand2Backbone,
    fGenVEdepStrand1Base, fGenVEdepStrand2Base,
    \* per-fibre copies, split -> bp -> energy
    fVEdepStrand1Backbone, fVEdepStrand2Backbone,
    fVEdepStrand1Base, fVEdepStrand2Base,
    \* damage lists of the current pass
    fIndicesSSB1, fIndicesSSB2, fIndicesBD1, fIndicesBD2, fIndicesDSB1D,
    fIndicesSimple,
    \* tallies (ntuple columns)
    fTotalSSB, fTotalBD, fTotalDSB, fTotalComplexDSB, fTotalNonDSBCluster,
    \* cluster detail vectors
    fComplexDSBSizes, fComplexDSBNumSSB, fComplexDSBNumBD, fComplexDSBNumDSB,
    fComplexDSBNumDamage,
    fNonDSBClusterSizes, fNonDSBClusterNumSSB, fNonDSBClusterNumBD,
    fNonDSBClusterNumDamage,
    \* output
    fEventID, fNtuple,
    \* locals of RecordSimpleDamage
    ThreshEDep, mapEDep, indicesDamage,
    \* locals of RecordDSB1D, and the iterations its loop has run
    site1, site2, indicesDSB1D, hIterations,
    \* locals of RecordClusteredDamage
    site, cluster, newCluster, buildingCluster,
    \* locals of UserHookForEndOfEvent: fibres still to visit, current fibre, split index
    fibresLeft, parentDepth, i,
    \* control: position of the running callback, events and hits delivered so far
    pc, nEvents, nHits,
    \* history: tallies and detail-vector lengths on entry of RecordClusteredDamage,
    \* clusters handed to RecordCluster, DSB list entries left unclustered this event
    entry, hRecorded, hUnclusteredDSB

vars == <<fPm, aStep, stepsOfEvent, fThresDistForDSB, fThresEdepForSSB, fThresEdepForBD, fThresDistForCluster,
          fNbOfAlgo,
          fGenVEdepStrand1Backbone, fGenVEdepStrand2Backbone,
          fGenVEdepStrand1Base, fGenVEdepStrand2Base,
          fVEdepStrand1Backbone, fVEdepStrand2Backbone,
          fVEdepStrand1Base, fVEdepStrand2Base,
          fIndicesSSB1, fIndicesSSB2, fIndicesBD1, fIndicesBD2, fIndicesDSB1D,
          fIndicesSimple,
          fTotalSSB, fTotalBD, fTotalDSB, fTotalComplexDSB, fTotalNonDSBCluster,
          fComplexDSBSizes, fComplexDSBNumSSB, fComplexDSBNumBD, fComplexDSBNumDSB,
          fComplexDSBNumDamage,
          fNonDSBClusterSizes, fNonDSBClusterNumSSB, fNonDSBClusterNumBD,
          fNonDSBClusterNumDamage,
          fEventID, fNtuple,
          ThreshEDep, mapEDep, indicesDamage,
          site1, site2, indicesDSB1D, hIterations,
          site, cluster, newCluster, buildingCluster,
          fibresLeft, parentDepth, i,
          pc, nEvents, nHits,
          entry, hRecorded, hUnclusteredDSB>>

----------------------------------------------------------------------------
\* Bounds of the model

\* largest bp index of the drawn inputs of the single-function specifications
MaxBp == 2
\* longest drawn ordered damage sequence
MaxLen == 4
\* largest drawn cluster distance threshold of the single-function specifications
MaxThres == 1
\* largest tally carried into a drawn clustering pass
MaxCarry == 1
\* most hits delivered in a run
MaxHits == 2
\* most events of a run
MaxEvents == 2
\* largest bp index of the drawn SSB sites of the pairing specification
MaxSite == 5
\* largest drawn DSB distance threshold of the pairing specification
MaxDist == 3
\* largest bp index of the drawn SSB sites of the stepwise pairing specification
MaxPairSite == 4
\* significant binary digits of a G4double in the model
MantissaBits == 6
\* most steps of the drawn event of the event specification
MaxSteps == 3

----------------------------------------------------------------------------
\* Program constants

\* damage type labels (members of the scorer, three distinct integers)
fIdSSB == 0
fIdBD == 1
fIdDSB == 2

\* constructor defaults
DefaultThresDistForDSB == 10
DefaultThresEdep == 35
DefaultThresDistForCluster == 40
DefaultNbOfAlgo == 1

----------------------------------------------------------------------------
\* Containers

EmptyMap == [k \in {} |-> 0]

Min(S) == CHOOSE x \in S : \A y \in S : x <= y

\* value of m[k] for a std::map (an absent key reads as an empty inner map)
Sub(m, k) == IF k \in DOMAIN m THEN m[k] ELSE EmptyMap

\* m after operator[] created the key k, if it was absent
Touch(m, k) == IF k \in DOMAIN m THEN m ELSE [x \in DOMAIN m \cup {k} |-> IF x = k THEN EmptyMap ELSE m[x]]

\* m with the key k erased
Erase(m, k) == [x \in DOMAIN m \ {k} |-> m[x]]

----------------------------------------------------------------------------
\* G4double arithmetic (non-negative values)

RECURSIVE Pow2(_)
Pow2(n) == IF n = 0 THEN 1 ELSE 2 * Pow2(n - 1)

\* the distance between two neighbouring representable values at the magnitude of x
RECURSIVE Spacing(_)
Spacing(x) == IF x < Pow2(MantissaBits) THEN 1 ELSE 2 * Spacing(x \div 2)

\* the representable value nearest to the real number x, ties to the even mantissa
RoundToDouble(x) ==
    LET s == Spacing(x)
        q == x \div s
        r == x - q * s
    IN  IF 2 * r < s THEN q * s
        ELSE IF 2 * r > s THEN (q + 1) * s
        ELSE IF q % 2 = 0 THEN q * s ELSE (q + 1) * s

\* x + y on two doubles
DoublePlus(x, y) == RoundToDouble(x + y)

RECURSIVE SeqSum(_)
SeqSum(s) == IF s = <<>> THEN 0 ELSE Head(s) + SeqSum(Tail(s))

\* number of entries of type t in an ordered damage sequence
CountType(s, t) == Cardinality({k \in 1..Len(s) : s[k][2] = t})

----------------------------------------------------------------------------
\* RecordSimpleDamage

\* one iteration of the while loop: the smallest key of mapEDep[0] is read, pushed
\* when its energy reaches the threshold, and erased.  L = [mapEDep, indicesDamage]
\* faulty variant: an energy equal to the threshold is not damage
SimpleDamagePush_Strict(eDep, Thresh) == eDep > Thresh

SimpleDamagePush(eDep, Thresh) == eDep >= Thresh

SimpleDamageIter(Thresh, L) ==
    LET m0 == Sub(L.mapEDep, 0)
        indexBP == Min(DOMAIN m0)
        eDep == m0[indexBP]
    IN  [mapEDep |-> [Touch(L.mapEDep, 0) EXCEPT ![0] = Erase(m0, indexBP)],
         indicesDamage |-> IF SimpleDamagePush(eDep, Thresh)
                           THEN Append(L.indicesDamage, indexBP)
                           ELSE L.indicesDamage]

RECURSIVE SimpleDamageLoop(_, _)
SimpleDamageLoop(Thresh, L) ==
    IF DOMAIN Sub(L.mapEDep, 0) = {}
    THEN [mapEDep |-> Touch(L.mapEDep, 0), indicesDamage |-> L.indicesDamage]
    ELSE SimpleDamageLoop(Thresh, SimpleDamageIter(Thresh, L))

\* the returned vector; the parameter map is the callee's own copy (passed by value)
RecordSimpleDamage(Thresh, map) ==
    SimpleDamageLoop(Thresh, [mapEDep |-> map, indicesDamage |-> <<>>]).indicesDamage

----------------------------------------------------------------------------
\* RecordDSB1D

\* faulty variant: the sign of the difference is kept
Abs_Signed(x) == x

Abs(x) == IF x < 0 THEN -x ELSE x

\* faulty variant: a strand-2 site any distance below the strand-1 site makes a DSB
WithinDSBDistance_OneSided(siteDiff, thres) == siteDiff <= thres

\* faulty variant: two sites at exactly the threshold distance make no DSB
WithinDSBDistance_Strict(siteDiff, thres) == Abs(siteDiff) < thres

\* line 432: the two sites are close enough to make a DSB
WithinDSBDistance(siteDiff, thres) == Abs(siteDiff) <= thres

\* faulty variant: the strand-1 site is always pushed first
PushedPair_Strand1First(s1, s2) == <<s1, s2>>

\* lines 434-442: the two entries pushed for a DSB, the lower bp index first
PushedPair(s1, s2) == IF s1 <= s2 THEN <<s1, s2>> ELSE <<s2, s1>>

RemoveAt(s, k) == [j \in 1..(Len(s) - 1) |-> IF j < k THEN s[j] ELSE s[j + 1]]

\* faulty variant: the entry takes the place of the one at position k
InsertAt_Overwrites(s, k, e) == [s EXCEPT ![k] = e]

InsertAt(s, k, e) == [j \in 1..(Len(s) + 1) |-> IF j < k THEN s[j] ELSE IF j = k THEN e ELSE s[j - 1]]

\* faulty variant: the paired strand-2 site is stepped over and stays in its list
DSBIter_KeepsStrand2(thres, D) ==
    LET s1 == D.ssb1[D.site1]
        s2 == D.ssb2[D.site2]
        siteDiff == s2 - s1
    IN  IF WithinDSBDistance(siteDiff, thres)
        THEN [D EXCEPT !.dsb = D.dsb \o PushedPair(s1, s2),
                       !.ssb1 = RemoveAt(D.ssb1, D.site1),
                       !.site2 = D.site2 + 1]
        ELSE IF siteDiff < 0
        THEN [D EXCEPT !.site2 = D.site2 + 1]
        ELSE [D EXCEPT !.site1 = D.site1 + 1]

\* faulty variant: the strand-1 cursor steps on when the strand-2 site is the earlier one
DSBIter_StepsStrand1(thres, D) ==
    LET s1 == D.ssb1[D.site1]
        s2 == D.ssb2[D.site2]
        siteDiff == s2 - s1
    IN  IF WithinDSBDistance(siteDiff, thres)
        THEN [D EXCEPT !.dsb = D.dsb \o PushedPair(s1, s2),
                       !.ssb1 = RemoveAt(D.ssb1, D.site1),
                       !.ssb2 = RemoveAt(D.ssb2, D.site2)]
        ELSE [D EXCEPT !.site1 = D.site1 + 1]

\* faulty variant: the cursors step on after the erasure of a pair
DSBIter_ErasesAndAdvances(thres, D) ==
    LET s1 == D.ssb1[D.site1]
        s2 == D.ssb2[D.site2]
        siteDiff == s2 - s1
    IN  IF WithinDSBDistance(siteDiff, thres)
        THEN [D EXCEPT !.dsb = D.dsb \o PushedPair(s1, s2),
                       !.ssb1 = RemoveAt(D.ssb1, D.site1),
                       !.ssb2 = RemoveAt(D.ssb2, D.site2),
                       !.site1 = D.site1 + 1,
                       !.site2 = D.site2 + 1]
        ELSE IF siteDiff < 0
        THEN [D EXCEPT !.site2 = D.site2 + 1]
        ELSE [D EXCEPT !.site1 = D.site1 + 1]

\* one iteration of the while loop.  D = [ssb1, ssb2, site1, site2, dsb]
DSBIter(thres, D) ==
    LET s1 == D.ssb1[D.site1]
        s2 == D.ssb2[D.site2]
        siteDiff == s2 - s1
    IN  IF WithinDSBDistance(siteDiff, thres)
        THEN [D EXCEPT !.dsb = D.dsb \o PushedPair(s1, s2),
                       !.ssb1 = RemoveAt(D.ssb1, D.site1),
                       !.ssb2 = RemoveAt(D.ssb2, D.site2)]
        ELSE IF siteDiff < 0
        THEN [D EXCEPT !.site2 = D.site2 + 1]
        ELSE [D EXCEPT !.site1 = D.site1 + 1]

RECURSIVE DSBLoop(_, _)
DSBLoop(thres, D) ==
    IF D.site1 <= Len(D.ssb1) /\ D.site2 <= Len(D.ssb2)
    THEN DSBLoop(thres, DSBIter(thres, D))
    ELSE D

\* the residual SSB lists and the returned DSB list
RecordDSB1D(ssb1, ssb2, thres) ==
    DSBLoop(thres, [ssb1 |-> ssb1, ssb2 |-> ssb2, site1 |-> 1, site2 |-> 1, dsb |-> <<>>])

----------------------------------------------------------------------------
\* CombineSimpleDamage

\* faulty variant: an entry is also inserted in front of an entry of the same bp index
InsertsBefore_OrEqual(index, existing) == index <= existing

\* lines 660, 677, 694, 711: the entry is inserted in front of the one under the cursor
InsertsBefore(index, existing) == index < existing

\* the insertion loop of one list into indicesSimple, then the push_back loop.
\* it = cursor in list, itSimple = cursor in indicesSimple
RECURSIVE MergeInto(_, _, _, _, _)
MergeInto(indicesSimple, list, type, it, itSimple) ==
    IF it <= Len(list) /\ itSimple <= Len(indicesSimple)
    THEN IF InsertsBefore(list[it], indicesSimple[itSimple][1])
         THEN MergeInto(InsertAt(indicesSimple, itSimple, <<list[it], type>>), list, type,
                        it + 1, itSimple)
         ELSE MergeInto(indicesSimple, list, type, it, itSimple + 1)
    ELSE indicesSimple \o [j \in 1..(Len(list) - it + 1) |-> <<list[it + j - 1], type>>]

CombineSimpleDamage(ssb1, bd1, ssb2, bd2, dsb) ==
    LET a == [j \in 1..Len(ssb1) |-> <<ssb1[j], fIdSSB>>]
        b == MergeInto(a, bd1, fIdBD, 1, 1)
        c == MergeInto(b, ssb2, fIdSSB, 1, 1)
        d == MergeInto(c, bd2, fIdBD, 1, 1)
    IN  MergeInto(d, dsb, fIdDSB, 1, 1)

----------------------------------------------------------------------------
\* RecordClusteredDamage, AddDamageToCluster, RecordCluster
\*
\* These operators work on a record M of the members they read and write:
\* the five tallies, the nine detail vectors, hRecorded and the flag exited
\* (exit(0) was called).

DamageCluster == [numSSB |-> 0, numBD |-> 0, numDSB |-> 0, start |-> 0, end |-> 0, size |-> 0]

\* the start or end site set by AddDamageToCluster
ClusterBounds(c, damageSite, newCl) ==
    IF newCl THEN [c EXCEPT !.start = damageSite] ELSE [c EXCEPT !.end = damageSite]

\* faulty variant: an absorbed SSB is not taken out of the simple tally
AddDamageToCluster_KeepsSSB(c, M, damageSite, damageType, newCl) ==
    LET c1 == ClusterBounds(c, damageSite, newCl)
    IN  IF damageType = fIdSSB
        THEN [cluster |-> [c1 EXCEPT !.numSSB = @ + 1], M |-> M]
        ELSE IF damageType = fIdBD
        THEN [cluster |-> [c1 EXCEPT !.numBD = @ + 1],
              M |-> [M EXCEPT !.fTotalBD = @ - 1]]
        ELSE IF damageType = fIdDSB
        THEN [cluster |-> [c1 EXCEPT !.numDSB = @ + 1],
              M |-> [M EXCEPT !.fTotalDSB = @ - 1]]
        ELSE [cluster |-> c1, M |-> [M EXCEPT !.exited = TRUE]]

\* faulty variant: a site with an unknown label is passed over
AddDamageToCluster_SkipsUnknown(c, M, damageSite, damageType, newCl) ==
    LET c1 == ClusterBounds(c, damageSite, newCl)
    IN  IF damageType = fIdSSB
        THEN [cluster |-> [c1 EXCEPT !.numSSB = @ + 1],
              M |-> [M EXCEPT !.fTotalSSB = @ - 1]]
        ELSE IF damageType = fIdBD
        THEN [cluster |-> [c1 EXCEPT !.numBD = @ + 1],
              M |-> [M EXCEPT !.fTotalBD = @ - 1]]
        ELSE IF damageType = fIdDSB
        THEN [cluster |-> [c1 EXCEPT !.numDSB = @ + 1],
              M |-> [M EXCEPT !.fTotalDSB = @ - 1]]
        ELSE [cluster |-> c1, M |-> M]

AddDamageToCluster(c, M, damageSite, damageType, newCl) ==
    LET c1 == ClusterBounds(c, damageSite, newCl)
    IN  IF damageType = fIdSSB
        THEN [cluster |-> [c1 EXCEPT !.numSSB = @ + 1],
              M |-> [M EXCEPT !.fTotalSSB = @ - 1]]
        ELSE IF damageType = fIdBD
        THEN [cluster |-> [c1 EXCEPT !.numBD = @ + 1],
              M |-> [M EXCEPT !.fTotalBD = @ - 1]]
        ELSE IF damageType = fIdDSB
        THEN [cluster |-> [c1 EXCEPT !.numDSB = @ + 1],
              M |-> [M EXCEPT !.fTotalDSB = @ - 1]]
        ELSE [cluster |-> c1, M |-> [M EXCEPT !.exited = TRUE]]

\* faulty variant: only a whole pair of DSB entries makes a Complex DSB
IsComplexDSB_WholePair(c) == c.numDSB > 1

\* the branch RecordCluster takes
IsComplexDSB(c) == c.numDSB > 0

RecordCluster(c, M) ==
    IF IsComplexDSB(c)
    THEN LET numDSB == c.numDSB \div 2
         IN  [cluster |-> DamageCluster,
              M |-> [M EXCEPT !.fComplexDSBSizes = Append(@, c.end - c.start + 1),
                              !.fComplexDSBNumSSB = Append(@, c.numSSB),
                              !.fComplexDSBNumBD = Append(@, c.numBD),
                              !.fComplexDSBNumDSB = Append(@, numDSB),
                              !.fComplexDSBNumDamage = Append(@, c.numSSB + c.numBD + numDSB),
                              !.fTotalComplexDSB = @ + 1,
                              !.hRecorded = Append(@, c)]]
    ELSE [cluster |-> DamageCluster,
          M |-> [M EXCEPT !.fNonDSBClusterSizes = Append(@, c.end - c.start + 1),
                          !.fNonDSBClusterNumSSB = Append(@, c.numSSB),
                          !.fNonDSBClusterNumBD = Append(@, c.numBD),
                          !.fNonDSBClusterNumDamage = Append(@, c.numSSB + c.numBD),
                          !.fTotalNonDSBCluster = @ + 1,
                          !.hRecorded = Append(@, c)]]

\* faulty variant: a gap equal to the threshold ends the cluster
CloseEnough_Strict(siteCur, sitePrev, thres) == (siteCur[1] - sitePrev[1]) < thres

\* whether two consecutive sites are close enough to form a cluster
CloseEnough(siteCur, sitePrev, thres) == (siteCur[1] - sitePrev[1]) <= thres

\* one iteration of the while loop.
\* L = [site, cluster, newCluster, buildingCluster, M]
ClusterIter(indicesSimple, thres, L) ==
    LET sitePrev == indicesSimple[L.site - 1]
        siteCur == indicesSimple[L.site]
    IN  IF CloseEnough(siteCur, sitePrev, thres)
        THEN LET a1 == IF L.newCluster
                       THEN AddDamageToCluster(L.cluster, L.M, sitePrev[1], sitePrev[2], TRUE)
                       ELSE [cluster |-> L.cluster, M |-> L.M]
                 a2 == IF a1.M.exited
                       THEN a1
                       ELSE AddDamageToCluster(a1.cluster, a1.M, siteCur[1], siteCur[2], FALSE)
             IN  IF a2.M.exited
                 THEN [L EXCEPT !.cluster = a2.cluster, !.M = a2.M]
                 ELSE [site |-> L.site + 1, cluster |-> a2.cluster, newCluster |-> FALSE,
                       buildingCluster |-> IF L.newCluster THEN TRUE ELSE L.buildingCluster,
                       M |-> a2.M]
        ELSE IF L.buildingCluster
        THEN LET r == RecordCluster(L.cluster, L.M)
             IN  [site |-> L.site + 1, cluster |-> r.cluster, newCluster |-> TRUE,
                  buildingCluster |-> FALSE, M |-> r.M]
        ELSE [L EXCEPT !.site = L.site + 1]

\* the final halving of the DSB tally
HalveDSB(n) == n \div 2

\* faulty variant: a cluster still being built at the end of the list is dropped
ClusterFinish_DropsOpen(L) ==
    [L EXCEPT !.buildingCluster = FALSE, !.M = [L.M EXCEPT !.fTotalDSB = HalveDSB(@)]]

\* the code after the loop: a cluster still being built is recorded, fTotalDSB is halved
ClusterFinish(L) ==
    LET r == IF L.buildingCluster
             THEN RecordCluster(L.cluster, L.M)
             ELSE [cluster |-> L.cluster, M |-> L.M]
    IN  [L EXCEPT !.cluster = r.cluster, !.buildingCluster = FALSE,
                  !.M = [r.M EXCEPT !.fTotalDSB = HalveDSB(@)]]

RECURSIVE ClusterLoop(_, _, _)
ClusterLoop(indicesSimple, thres, L) ==
    IF L.M.exited \/ L.site > Len(indicesSimple)
    THEN L
    ELSE ClusterLoop(indicesSimple, thres, ClusterIter(indicesSimple, thres, L))

\* the locals at the start of the loop
ClusterStart(M) ==
    [site |-> 2, cluster |-> DamageCluster, newCluster |-> TRUE, buildingCluster |-> FALSE,
     M |-> M]

\* faulty variant: only an empty sequence returns early
NothingToCluster_OnlyEmpty(indicesSimple) == Len(indicesSimple) < 1

\* line 494: only 1 or 0 damages, so no clustering
NothingToCluster(indicesSimple) == Len(indicesSimple) < 2

\* the whole call: the members as it leaves them
RecordClusteredDamage(indicesSimple, thres, M) ==
    IF NothingToCluster(indicesSimple)
    THEN M
    ELSE LET L == ClusterLoop(indicesSimple, thres, ClusterStart(M))
         IN  IF L.M.exited THEN L.M ELSE ClusterFinish(L).M

----------------------------------------------------------------------------
\* The members RecordClusteredDamage works on, as a record, and back

Members ==
    [fTotalSSB |-> fTotalSSB, fTotalBD |-> fTotalBD, fTotalDSB |-> fTotalDSB,
     fTotalComplexDSB |-> fTotalComplexDSB, fTotalNonDSBCluster |-> fTotalNonDSBCluster,
     fComplexDSBSizes |-> fComplexDSBSizes, fComplexDSBNumSSB |-> fComplexDSBNumSSB,
     fComplexDSBNumBD |-> fComplexDSBNumBD, fComplexDSBNumDSB |-> fComplexDSBNumDSB,
     fComplexDSBNumDamage |-> fComplexDSBNumDamage,
     fNonDSBClusterSizes |-> fNonDSBClusterSizes,
     fNonDSBClusterNumSSB |-> fNonDSBClusterNumSSB,
     fNonDSBClusterNumBD |-> fNonDSBClusterNumBD,
     fNonDSBClusterNumDamage |-> fNonDSBClusterNumDamage,
     hRecorded |-> hRecorded, exited |-> FALSE]

SetMembers(M) ==
    /\ fTotalSSB' = M.fTotalSSB
    /\ fTotalBD' = M.fTotalBD
    /\ fTotalDSB' = M.fTotalDSB
    /\ fTotalComplexDSB' = M.fTotalComplexDSB
    /\ fTotalNonDSBCluster' = M.fTotalNonDSBCluster
    /\ fComplexDSBSizes' = M.fComplexDSBSizes
    /\ fComplexDSBNumSSB' = M.fComplexDSBNumSSB
    /\ fComplexDSBNumBD' = M.fComplexDSBNumBD
    /\ fComplexDSBNumDSB' = M.fComplexDSBNumDSB
    /\ fComplexDSBNumDamage' = M.fComplexDSBNumDamage
    /\ fNonDSBClusterSizes' = M.fNonDSBClusterSizes
    /\ fNonDSBClusterNumSSB' = M.fNonDSBClusterNumSSB
    /\ fNonDSBClusterNumBD' = M.fNonDSBClusterNumBD
    /\ fNonDSBClusterNumDamage' = M.fNonDSBClusterNumDamage
    /\ hRecorded' = M.hRecorded

\* what the scan's entry remembers of the members
EntryOf(M) ==
    [fTotalSSB |-> M.fTotalSSB, fTotalBD |-> M.fTotalBD, fTotalDSB |-> M.fTotalDSB,
     fTotalComplexDSB |-> M.fTotalComplexDSB, fTotalNonDSBCluster |-> M.fTotalNonDSBCluster,
     nComplexDSB |-> Len(M.fComplexDSBSizes), nNonDSBCluster |-> Len(M.fNonDSBClusterSizes),
     nRecorded |-> Len(M.hRecorded)]

stepVars == <<aStep, stepsOfEvent>>
pairVars == <<site1, site2, indicesDSB1D, hIterations>>
configVars == <<fPm, fThresDistForDSB, fThresEdepForSSB, fThresEdepForBD, fThresDistForCluster,
                fNbOfAlgo>>
genVars == <<fGenVEdepStrand1Backbone, fGenVEdepStrand2Backbone,
             fGenVEdepStrand1Base, fGenVEdepStrand2Base>>
fibreVars == <<fVEdepStrand1Backbone, fVEdepStrand2Backbone,
               fVEdepStrand1Base, fVEdepStrand2Base>>
listVars == <<fIndicesSSB1, fIndicesSSB2, fIndicesBD1, fIndicesBD2, fIndicesDSB1D>>
memberVars == <<fTotalSSB, fTotalBD, fTotalDSB, fTotalComplexDSB, fTotalNonDSBCluster,
                fComplexDSBSizes, fComplexDSBNumSSB, fComplexDSBNumBD, fComplexDSBNumDSB,
                fComplexDSBNumDamage,
                fNonDSBClusterSizes, fNonDSBClusterNumSSB, fNonDSBClusterNumBD,
                fNonDSBClusterNumDamage, hRecorded>>
simpleVars == <<ThreshEDep, mapEDep, indicesDamage>>
scanVars == <<site, cluster, newCluster, buildingCluster>>
hookVars == <<fibresLeft, parentDepth, i>>
eventVars == <<fEventID, fNtuple, nEvents, nHits, hUnclusteredDSB>>

\* the state the constructor leaves, but for the fields a specification draws
ConstructedMembers ==
    /\ fTotalSSB = 0 /\ fTotalBD = 0 /\ fTotalDSB = 0
    /\ fTotalComplexDSB = 0 /\ fTotalNonDSBCluster = 0
    /\ fComplexDSBSizes = <<>> /\ fComplexDSBNumSSB = <<>> /\ fComplexDSBNumBD = <<>>
    /\ fComplexDSBNumDSB = <<>> /\ fComplexDSBNumDamage = <<>>
    /\ fNonDSBClusterSizes = <<>> /\ fNonDSBClusterNumSSB = <<>>
    /\ fNonDSBClusterNumBD = <<>> /\ fNonDSBClusterNumDamage = <<>>
    /\ hRecorded = <<>>

ConstructedMaps ==
    /\ fGenVEdepStrand1Backbone = EmptyMap /\ fGenVEdepStrand2Backbone = EmptyMap
    /\ fGenVEdepStrand1Base = EmptyMap /\ fGenVEdepStrand2Base = EmptyMap
    /\ fVEdepStrand1Backbone = EmptyMap /\ fVEdepStrand2Backbone = EmptyMap
    /\ fVEdepStrand1Base = EmptyMap /\ fVEdepStrand2Base = EmptyMap

ConstructedLists ==
    /\ fIndicesSSB1 = <<>> /\ fIndicesSSB2 = <<>> /\ fIndicesBD1 = <<>>
    /\ fIndicesBD2 = <<>> /\ fIndicesDSB1D = <<>>

IdleLocals ==
    /\ ThreshEDep = 0 /\ mapEDep = EmptyMap /\ indicesDamage = <<>>
    /\ site = 0 /\ cluster = DamageCluster /\ newCluster = TRUE /\ buildingCluster = FALSE
    /\ fibresLeft = {} /\ parentDepth = 0 /\ i = 0

\* RecordDSB1D is not running
IdlePairing == site1 = 0 /\ site2 = 0 /\ indicesDSB1D = <<>> /\ hIterations = 0

\* no step is held
NoStep == [edep |-> 0, volID |-> 0, fibre |-> 0, splitTrackID |-> 0]

IdleEvent ==
    /\ aStep = NoStep
    /\ stepsOfEvent = <<>>
    /\ fEventID = 0 /\ fNtuple = <<>> /\ nEvents = 0 /\ nHits = 0 /\ hUnclusteredDSB = 0

----------------------------------------------------------------------------
\* Constructor, lines 50-105: the defaults, then the parameters that exist

ParameterExists(pm, name) == name \in DOMAIN pm

\* the configuration the constructor leaves for the parameters pm.  Line 78 reads the
\* parameter EnergyThresholdToInduceBD when EnergyThresholdForHavingBD exists, and
\* stores it in fThresEdepForSSB; the parameter manager ends the run when it is asked
\* for a parameter that does not exist (aborted).
Constructor(pm) ==
    LET ssb == IF ParameterExists(pm, "EnergyThresholdForHavingSSB")
               THEN pm["EnergyThresholdForHavingSSB"]
               ELSE DefaultThresEdep
        readsBD == ParameterExists(pm, "EnergyThresholdForHavingBD")
    IN  [fThresDistForDSB |-> IF ParameterExists(pm, "BasePairDistanceForDefiningDSB")
                               THEN pm["BasePairDistanceForDefiningDSB"]
                               ELSE DefaultThresDistForDSB,
         fThresEdepForSSB |-> IF readsBD /\ ParameterExists(pm, "EnergyThresholdToInduceBD")
                               THEN pm["EnergyThresholdToInduceBD"]
                               ELSE ssb,
         fThresEdepForBD |-> DefaultThresEdep,
         fThresDistForCluster |-> DefaultThresDistForCluster,
         fNbOfAlgo |-> IF ParameterExists(pm, "NumberOfSplit")
                        THEN pm["NumberOfSplit"]
                        ELSE DefaultNbOfAlgo,
         aborted |-> readsBD /\ ~ParameterExists(pm, "EnergyThresholdToInduceBD")]

\* the configuration members hold what the constructor left for the parameters fPm
Constructed ==
    LET c == Constructor(fPm)
    IN  /\ fThresDistForDSB = c.fThresDistForDSB
        /\ fThresEdepForSSB = c.fThresEdepForSSB
        /\ fThresEdepForBD = c.fThresEdepForBD
        /\ fThresDistForCluster = c.fThresDistForCluster
        /\ fNbOfAlgo = c.fNbOfAlgo

\* the parameter files that set each of the named parameters to one of its values, or
\* leave it out.  values: name -> set of values
ParameterFiles(values) ==
    UNION {[names -> UNION {values[n] : n \in names}] : names \in SUBSET DOMAIN values}

\* the files of ParameterFiles(values) that give each parameter one of its own values
WellTyped(values) == {pm \in ParameterFiles(values) : \A n \in DOMAIN pm : pm[n] \in values[n]}

----------------------------------------------------------------------------
\* SpecCluster: RecordClusteredDamage applied to a drawn ordered damage sequence

DamageTypes == {fIdSSB, fIdBD, fIdDSB}

IsOrdered(s) == \A k \in 1..(Len(s) - 1) : s[k][1] <= s[k + 1][1]

OrderedSequences ==
    UNION {{s \in [1..n -> (0..MaxBp) \X DamageTypes] : IsOrdered(s)} : n \in 0..MaxLen}

\* the state on entry of RecordClusteredDamage for a sequence drawn from sequences
InitClusterOn(sequences) ==
    /\ fPm = EmptyMap
    /\ fThresDistForDSB = DefaultThresDistForDSB
    /\ fThresEdepForSSB = DefaultThresEdep
    /\ fThresEdepForBD = DefaultThresEdep
    /\ fNbOfAlgo = DefaultNbOfAlgo
    /\ fThresDistForCluster \in 0..MaxThres
    /\ fIndicesSimple \in sequences
    /\ \E carry \in 0..MaxCarry :
          /\ fTotalSSB = CountType(fIndicesSimple, fIdSSB) + carry
          /\ fTotalBD = CountType(fIndicesSimple, fIdBD) + carry
          /\ fTotalDSB = CountType(fIndicesSimple, fIdDSB) + carry
    /\ fTotalComplexDSB = 0 /\ fTotalNonDSBCluster = 0
    /\ fComplexDSBSizes = <<>> /\ fComplexDSBNumSSB = <<>> /\ fComplexDSBNumBD = <<>>
    /\ fComplexDSBNumDSB = <<>> /\ fComplexDSBNumDamage = <<>>
    /\ fNonDSBClusterSizes = <<>> /\ fNonDSBClusterNumSSB = <<>>
    /\ fNonDSBClusterNumBD = <<>> /\ fNonDSBClusterNumDamage = <<>>
    /\ hRecorded = <<>>
    /\ IdlePairing
    /\ entry = EntryOf(Members)
    /\ ConstructedMaps /\ ConstructedLists /\ IdleLocals /\ IdleEvent
    /\ pc = "cl_entry"

InitCluster == InitClusterOn(OrderedSequences)

\* lines 493-504: the early return, or the locals of the scan
ClusterEnter ==
    /\ pc = "cl_entry"
    /\ IF NothingToCluster(fIndicesSimple)
       THEN /\ pc' = "cl_done"
            /\ UNCHANGED scanVars
       ELSE /\ pc' = "cl_loop"
            /\ site' = ClusterStart(Members).site
            /\ cluster' = ClusterStart(Members).cluster
            /\ newCluster' = ClusterStart(Members).newCluster
            /\ buildingCluster' = ClusterStart(Members).buildingCluster
    /\ UNCHANGED <<configVars, stepVars, pairVars, genVars, fibreVars, listVars, fIndicesSimple, memberVars,
                   simpleVars, hookVars, eventVars, entry>>

ScanLocals ==
    [site |-> site, cluster |-> cluster, newCluster |-> newCluster,
     buildingCluster |-> buildingCluster, M |-> Members]

\* lines 507-534: one iteration of the scan
ClusterStep ==
    /\ pc = "cl_loop"
    /\ site <= Len(fIndicesSimple)
    /\ LET L == ClusterIter(fIndicesSimple, fThresDistForCluster, ScanLocals)
       IN  /\ site' = L.site
           /\ cluster' = L.cluster
           /\ newCluster' = L.newCluster
           /\ buildingCluster' = L.buildingCluster
           /\ SetMembers(L.M)
           /\ pc' = IF L.M.exited THEN "exited" ELSE "cl_loop"
    /\ UNCHANGED <<configVars, stepVars, pairVars, genVars, fibreVars, listVars, fIndicesSimple,
                   simpleVars, hookVars, eventVars, entry>>

\* lines 535-542: the code after the scan
ClusterEnd ==
    /\ pc = "cl_loop"
    /\ site > Len(fIndicesSimple)
    /\ LET L == ClusterFinish(ScanLocals)
       IN  /\ cluster' = L.cluster
           /\ buildingCluster' = L.buildingCluster
           /\ SetMembers(L.M)
    /\ pc' = "cl_done"
    /\ UNCHANGED <<configVars, stepVars, pairVars, genVars, fibreVars, listVars, fIndicesSimple,
                   simpleVars, hookVars, eventVars, entry, site, newCluster>>

NextCluster == ClusterEnter \/ ClusterStep \/ ClusterEnd

SpecCluster == InitCluster /\ [][NextCluster]_vars

----------------------------------------------------------------------------
\* SpecTag: RecordClusteredDamage applied to a drawn ordered sequence in which a site
\* carries a damage type label that is none of fIdSSB, fIdBD, fIdDSB

UnknownTag == fIdDSB + 1

TaggedSequences ==
    UNION {{s \in [1..n -> (0..MaxBp) \X (DamageTypes \cup {UnknownTag})] :
               IsOrdered(s) /\ \E k \in 1..n : s[k][2] = UnknownTag} : n \in 0..MaxLen}

InitTag == InitClusterOn(TaggedSequences)

SpecTag == InitTag /\ [][NextCluster]_vars

----------------------------------------------------------------------------
\* ProcessHits

\* m with m[k] set to v (the key is created when absent)
Put(m, k, v) == [x \in DOMAIN m \cup {k} |-> IF x = k THEN v ELSE m[x]]

\* faulty variant: the deposit replaces the energy held at the key
AddEdep_Assigns(gen, fibre, split, bp, edep) ==
    LET m2 == Sub(gen, fibre)
        m1 == Sub(m2, split)
    IN  Put(gen, fibre, Put(m2, split, Put(m1, bp, edep)))

\* gen[fibre][split][bp] += edep
AddEdep(gen, fibre, split, bp, edep) ==
    LET m2 == Sub(gen, fibre)
        m1 == Sub(m2, split)
        old == IF bp \in DOMAIN m1 THEN m1[bp] ELSE 0
    IN  Put(gen, fibre, Put(m2, split, Put(m1, bp, DoublePlus(old, edep))))

\* the for loop over i = from .. fNbOfAlgo-1 adding edep at every split index
RECURSIVE AddEdepAllSplits(_, _, _, _, _, _)
AddEdepAllSplits(gen, fibre, from, nb, bp, edep) ==
    IF from >= nb
    THEN gen
    ELSE AddEdepAllSplits(AddEdep(gen, fibre, from, bp, edep), fibre, from + 1, nb, bp, edep)

\* volume copy number of a residue, as the geometry numbers it
VolID(strand, res, nucleotide) == strand * 1000000 + res * 100000 + nucleotide

IsBackboneRes(num_res) == num_res = 0 \/ num_res = 1
IsBaseRes(num_res) == num_res = 2

\* the four maps after one call.  G = [S1Backbone, S2Backbone, S1Base, S2Base]
ProcessHitsMaps(G, nbOfAlgo, edep, volID, fibre, splitTrackID) ==
    LET num_strand == volID \div 1000000
        num_res == (volID - (num_strand * 1000000)) \div 100000
        num_nucleotide == volID - (num_strand * 1000000) - (num_res * 100000)
        index == IF nbOfAlgo > 1 THEN splitTrackID ELSE 1
    IN  IF ~(edep > 0) \/ ~(num_strand = 0 \/ num_strand = 1)
        THEN G
        ELSE IF index > 2
        THEN IF num_strand = 0
             THEN [G EXCEPT !.S1Backbone = AddEdep(@, fibre, index - 3, num_nucleotide, edep)]
             ELSE [G EXCEPT !.S2Backbone = AddEdep(@, fibre, index - 3, num_nucleotide, edep)]
        ELSE IF num_strand = 0
        THEN IF IsBackboneRes(num_res)
             THEN [G EXCEPT !.S1Backbone = AddEdepAllSplits(@, fibre, 0, nbOfAlgo, num_nucleotide, edep)]
             ELSE IF IsBaseRes(num_res)
             THEN [G EXCEPT !.S1Base = AddEdepAllSplits(@, fibre, 0, nbOfAlgo, num_nucleotide, edep)]
             ELSE G
        ELSE IF IsBackboneRes(num_res)
             THEN [G EXCEPT !.S2Backbone = AddEdepAllSplits(@, fibre, 0, nbOfAlgo, num_nucleotide, edep)]
             ELSE IF IsBaseRes(num_res)
             THEN [G EXCEPT !.S2Base = AddEdepAllSplits(@, fibre, 0, nbOfAlgo, num_nucleotide, edep)]
             ELSE G

GenMaps ==
    [S1Backbone |-> fGenVEdepStrand1Backbone, S2Backbone |-> fGenVEdepStrand2Backbone,
     S1Base |-> fGenVEdepStrand1Base, S2Base |-> fGenVEdepStrand2Base]

----------------------------------------------------------------------------
\* UserHookForEndOfEvent, lines 323-350: one iteration of the loop over the splits

\* faulty variant: a pass that only recorded clusters fills no row
RowWanted_SimpleOnly(M) == M.fTotalSSB > 0 \/ M.fTotalBD > 0 \/ M.fTotalDSB > 0

\* the condition under which a row is filled
RowWanted(M) ==
    M.fTotalSSB > 0 \/ M.fTotalBD > 0 \/ M.fTotalDSB > 0 \/ M.fTotalComplexDSB > 0
        \/ M.fTotalNonDSBCluster > 0

\* the registered columns
Row(eventID, M) ==
    [fEventID |-> eventID, fTotalSSB |-> M.fTotalSSB, fTotalDSB |-> M.fTotalDSB,
     fTotalBD |-> M.fTotalBD, fTotalComplexDSB |-> M.fTotalComplexDSB,
     fTotalNonDSBCluster |-> M.fTotalNonDSBCluster]

\* the DSB tally after the DSB list of a pass was added to it
AddDSBTally(total, dsb) == total + Len(dsb)

\* the lists, the members and the rows after one pass
PassResult ==
    LET ssb1 == RecordSimpleDamage(fThresEdepForSSB, fVEdepStrand1Backbone)
        ssb2 == RecordSimpleDamage(fThresEdepForSSB, fVEdepStrand2Backbone)
        bd1 == RecordSimpleDamage(fThresEdepForBD, fVEdepStrand1Base)
        bd2 == RecordSimpleDamage(fThresEdepForBD, fVEdepStrand2Base)
        D == RecordDSB1D(ssb1, ssb2, fThresDistForDSB)
        M0 == [Members EXCEPT !.fTotalSSB = @ + Len(D.ssb1) + Len(D.ssb2),
                              !.fTotalBD = @ + Len(bd1) + Len(bd2),
                              !.fTotalDSB = AddDSBTally(@, D.dsb)]
        simple == CombineSimpleDamage(D.ssb1, bd1, D.ssb2, bd2, D.dsb)
        M1 == RecordClusteredDamage(simple, fThresDistForCluster, M0)
    IN  [fIndicesSSB1 |-> D.ssb1, fIndicesSSB2 |-> D.ssb2, fIndicesBD1 |-> bd1,
         fIndicesBD2 |-> bd2, fIndicesDSB1D |-> D.dsb, fIndicesSimple |-> simple,
         entry |-> EntryOf(M0), M |-> M1,
         fNtuple |-> IF ~M1.exited /\ RowWanted(M1)
                     THEN Append(fNtuple, Row(fEventID, M1))
                     ELSE fNtuple]

\* DSB list entries absorbed by the clusters recorded since the entry of a pass
RECURSIVE AbsorbedDSB(_, _)
AbsorbedDSB(rec, from) ==
    IF from >= Len(rec) THEN 0 ELSE rec[from + 1].numDSB + AbsorbedDSB(rec, from + 1)

SplitPass ==
    /\ pc = "split"
    /\ i < fNbOfAlgo
    /\ LET R == PassResult
       IN  /\ fIndicesSSB1' = R.fIndicesSSB1
           /\ fIndicesSSB2' = R.fIndicesSSB2
           /\ fIndicesBD1' = R.fIndicesBD1
           /\ fIndicesBD2' = R.fIndicesBD2
           /\ fIndicesDSB1D' = R.fIndicesDSB1D
           /\ fIndicesSimple' = R.fIndicesSimple
           /\ entry' = R.entry
           /\ SetMembers(R.M)
           /\ fNtuple' = R.fNtuple
           /\ hUnclusteredDSB' = hUnclusteredDSB + Len(R.fIndicesDSB1D)
                                    - AbsorbedDSB(R.M.hRecorded, R.entry.nRecorded)
           /\ pc' = IF R.M.exited THEN "exited" ELSE "split"
    /\ i' = i + 1
    /\ UNCHANGED <<configVars, stepVars, pairVars, genVars, fibreVars, simpleVars, scanVars, fibresLeft,
                   parentDepth, fEventID, nEvents, nHits>>

----------------------------------------------------------------------------
\* Spec: the scorer over a run of events

\* values of the parameters BasePairDistanceForDefiningDSB and NumberOfSplit
ParamDistForDSB == {DefaultThresDistForDSB, DefaultThresDistForCluster + 1}
ParamNumberOfSplit == {DefaultNbOfAlgo, 2}

\* the parameter files of a run: each of the two parameters set above its default, or
\* left out
ParamFilesOfRun ==
    WellTyped([n \in {"BasePairDistanceForDefiningDSB", "NumberOfSplit"} |->
                  IF n = "NumberOfSplit"
                  THEN ParamNumberOfSplit \ {DefaultNbOfAlgo}
                  ELSE ParamDistForDSB \ {DefaultThresDistForDSB}])

\* the hits delivered: fibre, volume, energy, split track id
HitFibres == {0, 1}
HitBp == {0, DefaultThresDistForCluster + 1}
HitVolIDs == {VolID(s, r, n) : s \in {0, 1}, r \in {1, 2}, n \in HitBp}
HitEdep == {DefaultThresEdep}
HitSplitTrackIDs == {1, 3}

\* the hits below the threshold energy: at bp 0 of fibre 0, on an unsplit track
LowHitVolIDs == {VolID(s, r, 0) : s \in {0, 1}, r \in {1, 2}}
LowHits == {DefaultThresEdep - 1} \X LowHitVolIDs \X {0} \X {1}

\* the hits delivered: <<edep, volID, fibre, splitTrackID>>
Hits == (HitEdep \X HitVolIDs \X HitFibres \X HitSplitTrackIDs) \cup LowHits

Init ==
    /\ fPm \in ParamFilesOfRun
    /\ Constructed
    /\ ConstructedMembers /\ ConstructedMaps /\ ConstructedLists
    /\ fIndicesSimple = <<>>
    /\ IdleLocals /\ IdleEvent
    /\ IdlePairing
    /\ entry = EntryOf(Members)
    /\ pc = "hits"

\* one call of ProcessHits
ProcessHitsCall(edep, volID, fibre, splitTrackID) ==
    /\ pc = "hits"
    /\ LET G == ProcessHitsMaps(GenMaps, fNbOfAlgo, edep, volID, fibre, splitTrackID)
       IN  /\ fGenVEdepStrand1Backbone' = G.S1Backbone
           /\ fGenVEdepStrand2Backbone' = G.S2Backbone
           /\ fGenVEdepStrand1Base' = G.S1Base
           /\ fGenVEdepStrand2Base' = G.S2Base
    /\ nHits' = nHits + 1
    /\ UNCHANGED <<configVars, stepVars, pairVars, fibreVars, listVars, fIndicesSimple, memberVars, simpleVars,
                   scanVars, hookVars, fEventID, fNtuple, nEvents, hUnclusteredDSB, entry, pc>>

\* a call of ProcessHits within the bounds of the run
ProcessHits(edep, volID, fibre, splitTrackID) ==
    /\ nHits < MaxHits
    /\ nEvents < MaxEvents
    /\ ProcessHitsCall(edep, volID, fibre, splitTrackID)

\* lines 278-308: the event id is read and the loop over the fibres of
\* fGenVEdepStrand1Backbone starts
HookBegin ==
    /\ pc = "hits"
    /\ nEvents < MaxEvents
    /\ fEventID' = nEvents
    /\ fibresLeft' = DOMAIN fGenVEdepStrand1Backbone
    /\ hUnclusteredDSB' = 0
    /\ pc' = "fibre"
    /\ UNCHANGED <<configVars, stepVars, pairVars, genVars, fibreVars, listVars, fIndicesSimple, memberVars,
                   simpleVars, scanVars, parentDepth, i, fNtuple, nEvents, nHits, entry>>

\* lines 310-322: the maps of the next fibre are copied
FibreBegin ==
    /\ pc = "fibre"
    /\ fibresLeft # {}
    /\ LET fibre == Min(fibresLeft)
       IN  /\ parentDepth' = fibre
           /\ fVEdepStrand1Backbone' = Sub(fGenVEdepStrand1Backbone, fibre)
           /\ fVEdepStrand2Backbone' = Sub(fGenVEdepStrand2Backbone, fibre)
           /\ fVEdepStrand1Base' = Sub(fGenVEdepStrand1Base, fibre)
           /\ fVEdepStrand2Base' = Sub(fGenVEdepStrand2Base, fibre)
           /\ fGenVEdepStrand1Backbone' = Touch(fGenVEdepStrand1Backbone, fibre)
           /\ fGenVEdepStrand2Backbone' = Touch(fGenVEdepStrand2Backbone, fibre)
           /\ fGenVEdepStrand1Base' = Touch(fGenVEdepStrand1Base, fibre)
           /\ fGenVEdepStrand2Base' = Touch(fGenVEdepStrand2Base, fibre)
    /\ i' = 0
    /\ pc' = "split"
    /\ UNCHANGED <<configVars, stepVars, pairVars, listVars, fIndicesSimple, memberVars, simpleVars, scanVars,
                   fibresLeft, eventVars, entry>>

\* lines 373-376: the two backbone copies are cleared, the loop goes to the next fibre
FibreEnd ==
    /\ pc = "split"
    /\ i >= fNbOfAlgo
    /\ fVEdepStrand1Backbone' = EmptyMap
    /\ fVEdepStrand2Backbone' = EmptyMap
    /\ fibresLeft' = fibresLeft \ {parentDepth}
    /\ pc' = "fibre"
    /\ UNCHANGED <<configVars, stepVars, pairVars, genVars, fVEdepStrand1Base, fVEdepStrand2Base, listVars,
                   fIndicesSimple, memberVars, simpleVars, scanVars, parentDepth, i,
                   eventVars, entry>>

\* lines 377-380: the two backbone maps are cleared, the hook returns
HookEnd ==
    /\ pc = "fibre"
    /\ fibresLeft = {}
    /\ fGenVEdepStrand1Backbone' = EmptyMap
    /\ fGenVEdepStrand2Backbone' = EmptyMap
    /\ nEvents' = nEvents + 1
    /\ pc' = "hits"
    /\ UNCHANGED <<configVars, stepVars, pairVars, fGenVEdepStrand1Base, fGenVEdepStrand2Base, fibreVars,
                   listVars, fIndicesSimple, memberVars, simpleVars, scanVars, hookVars,
                   fEventID, fNtuple, nHits, hUnclusteredDSB, entry>>

Next ==
    \/ \E h \in Hits : ProcessHits(h[1], h[2], h[3], h[4])
    \/ HookBegin
    \/ FibreBegin
    \/ SplitPass
    \/ FibreEnd
    \/ HookEnd

Spec == Init /\ [][Next]_vars

----------------------------------------------------------------------------
\* SpecSimple: the call of line 323, fIndicesSSB1 = RecordSimpleDamage(fThresEdepForSSB,
\* fVEdepStrand1Backbone), made once per iteration of the loop over the splits, on a
\* drawn map and threshold

\* the energies drawn: below, at and above the default threshold
DrawnEdep == {DefaultThresEdep - 1, DefaultThresEdep, DefaultThresEdep + 1}
DrawnThresEdep == {DefaultThresEdep, DefaultThresEdep + 1}

\* the maps bp -> energy over the keys 0..MaxBp
DrawnInnerMaps == UNION {[S -> DrawnEdep] : S \in SUBSET (0..MaxBp)}

\* split -> bp -> energy: split 0 absent or any inner map, split 1 absent or one entry
DrawnSplitMaps ==
    {EmptyMap}
        \cup {(0 :> m) : m \in DrawnInnerMaps}
        \cup {(1 :> (0 :> DefaultThresEdep))}
        \cup {(0 :> m) @@ (1 :> (0 :> DefaultThresEdep)) : m \in DrawnInnerMaps}

InitSimple ==
    /\ fPm = EmptyMap
    /\ fThresDistForDSB = DefaultThresDistForDSB
    /\ fThresEdepForSSB \in DrawnThresEdep
    /\ fThresEdepForBD = DefaultThresEdep
    /\ fThresDistForCluster = DefaultThresDistForCluster
    /\ fNbOfAlgo \in ParamNumberOfSplit
    /\ ConstructedMembers /\ ConstructedLists
    /\ fGenVEdepStrand1Backbone = EmptyMap /\ fGenVEdepStrand2Backbone = EmptyMap
    /\ fGenVEdepStrand1Base = EmptyMap /\ fGenVEdepStrand2Base = EmptyMap
    /\ fVEdepStrand1Backbone \in DrawnSplitMaps
    /\ fVEdepStrand2Backbone = EmptyMap
    /\ fVEdepStrand1Base = EmptyMap /\ fVEdepStrand2Base = EmptyMap
    /\ fIndicesSimple = <<>>
    /\ IdleLocals /\ IdleEvent
    /\ IdlePairing
    /\ entry = EntryOf(Members)
    /\ pc = "sd_call"

\* lines 387-393: the map is copied into the parameter, the result starts empty
SimpleCall ==
    /\ pc = "sd_call"
    /\ i < fNbOfAlgo
    /\ ThreshEDep' = fThresEdepForSSB
    /\ mapEDep' = fVEdepStrand1Backbone
    /\ indicesDamage' = <<>>
    /\ pc' = "sd_loop"
    /\ UNCHANGED <<configVars, stepVars, pairVars, genVars, fibreVars, listVars, fIndicesSimple, memberVars,
                   scanVars, hookVars, eventVars, entry>>

\* lines 398-407: one iteration of the loop
SimpleStep ==
    /\ pc = "sd_loop"
    /\ DOMAIN Sub(mapEDep, 0) # {}
    /\ LET L == SimpleDamageIter(ThreshEDep, [mapEDep |-> mapEDep, indicesDamage |-> indicesDamage])
       IN  /\ mapEDep' = L.mapEDep
           /\ indicesDamage' = L.indicesDamage
    /\ UNCHANGED <<configVars, stepVars, pairVars, genVars, fibreVars, listVars, fIndicesSimple, memberVars,
                   scanVars, hookVars, eventVars, entry, ThreshEDep, pc>>

\* lines 398 and 409, line 323: the loop ends, the result is assigned to fIndicesSSB1
SimpleReturn ==
    /\ pc = "sd_loop"
    /\ DOMAIN Sub(mapEDep, 0) = {}
    /\ mapEDep' = Touch(mapEDep, 0)
    /\ fIndicesSSB1' = indicesDamage
    /\ i' = i + 1
    /\ pc' = "sd_call"
    /\ UNCHANGED <<configVars, stepVars, pairVars, genVars, fibreVars, fIndicesSSB2, fIndicesBD1, fIndicesBD2,
                   fIndicesDSB1D, fIndicesSimple, memberVars, scanVars, fibresLeft,
                   parentDepth, eventVars, entry, ThreshEDep, indicesDamage>>

NextSimple == SimpleCall \/ SimpleStep \/ SimpleReturn

SpecSimple == InitSimple /\ [][NextSimple]_vars

----------------------------------------------------------------------------
\* SpecPass: one pass of the loop over the splits (lines 323-350) on drawn maps of one
\* fibre and drawn distance thresholds

\* split 0 holding every key of S at the threshold energy
DamagedAt(S) == (0 :> [bp \in S |-> DefaultThresEdep])

InitPass ==
    /\ fPm = EmptyMap
    /\ fThresDistForDSB \in 0..MaxThres
    /\ fThresDistForCluster \in 0..MaxThres
    /\ fThresEdepForSSB = DefaultThresEdep
    /\ fThresEdepForBD = DefaultThresEdep
    /\ fNbOfAlgo = DefaultNbOfAlgo
    /\ ConstructedMembers /\ ConstructedLists
    /\ fGenVEdepStrand1Backbone = EmptyMap /\ fGenVEdepStrand2Backbone = EmptyMap
    /\ fGenVEdepStrand1Base = EmptyMap /\ fGenVEdepStrand2Base = EmptyMap
    /\ fVEdepStrand1Backbone \in {DamagedAt(S) : S \in SUBSET (0..MaxBp)}
    /\ fVEdepStrand2Backbone \in {DamagedAt(S) : S \in SUBSET (0..MaxBp)}
    /\ fVEdepStrand1Base \in {DamagedAt(S) : S \in SUBSET (0..MaxBp)}
    /\ fVEdepStrand2Base \in {DamagedAt(S) : S \in {T \in SUBSET (0..MaxBp) : Cardinality(T) <= 1}}
    /\ fIndicesSimple = <<>>
    /\ ThreshEDep = 0 /\ mapEDep = EmptyMap /\ indicesDamage = <<>>
    /\ site = 0 /\ cluster = DamageCluster /\ newCluster = TRUE /\ buildingCluster = FALSE
    /\ fibresLeft = {0} /\ parentDepth = 0 /\ i = 0
    /\ IdleEvent
    /\ IdlePairing
    /\ entry = EntryOf(Members)
    /\ pc = "split"

NextPass == SplitPass \/ FibreEnd

SpecPass == InitPass /\ [][NextPass]_vars

----------------------------------------------------------------------------
\* SpecMerge: one pass of the loop over the splits (lines 323-350) on drawn maps of one
\* fibre that hold few base damages, for a drawn DSB distance

\* the sets of at most n damaged sites
UpTo(n) == {S \in SUBSET (0..MaxBp) : Cardinality(S) <= n}

InitMerge ==
    /\ fPm = EmptyMap
    /\ fThresDistForDSB \in 0..MaxThres
    /\ fThresDistForCluster = DefaultThresDistForCluster
    /\ fThresEdepForSSB = DefaultThresEdep
    /\ fThresEdepForBD = DefaultThresEdep
    /\ fNbOfAlgo = DefaultNbOfAlgo
    /\ ConstructedMembers /\ ConstructedLists
    /\ fGenVEdepStrand1Backbone = EmptyMap /\ fGenVEdepStrand2Backbone = EmptyMap
    /\ fGenVEdepStrand1Base = EmptyMap /\ fGenVEdepStrand2Base = EmptyMap
    /\ fVEdepStrand1Backbone \in {DamagedAt(S) : S \in SUBSET (0..MaxBp)}
    /\ fVEdepStrand2Backbone \in {DamagedAt(S) : S \in UpTo(2)}
    /\ fVEdepStrand1Base \in {DamagedAt(S) : S \in UpTo(1)}
    /\ fVEdepStrand2Base \in {DamagedAt(S) : S \in UpTo(1)}
    /\ fIndicesSimple = <<>>
    /\ ThreshEDep = 0 /\ mapEDep = EmptyMap /\ indicesDamage = <<>>
    /\ site = 0 /\ cluster = DamageCluster /\ newCluster = TRUE /\ buildingCluster = FALSE
    /\ fibresLeft = {0} /\ parentDepth = 0 /\ i = 0
    /\ IdleEvent
    /\ IdlePairing
    /\ entry = EntryOf(Members)
    /\ pc = "split"

SpecMerge == InitMerge /\ [][NextPass]_vars

----------------------------------------------------------------------------
\* SpecDSB: RecordDSB1D (line 328) and then CombineSimpleDamage (line 336) on the SSB
\* lists RecordSimpleDamage returned for drawn backbone maps, for a drawn DSB distance

\* the sets of damaged backbone sites drawn for a strand: any set of sites up to
\* MaxSite, and the two sets of the scenario noted in RecordDSB1D (lines 421-422)
DrawnSiteSets == (SUBSET (0..MaxSite)) \cup {{0, 3, 5, 9}, {2, 8}}

InitDSB ==
    /\ fPm = EmptyMap
    /\ fThresDistForDSB \in 0..MaxDist
    /\ fThresEdepForSSB = DefaultThresEdep
    /\ fThresEdepForBD = DefaultThresEdep
    /\ fThresDistForCluster = DefaultThresDistForCluster
    /\ fNbOfAlgo = DefaultNbOfAlgo
    /\ ConstructedMembers
    /\ fGenVEdepStrand1Backbone = EmptyMap /\ fGenVEdepStrand2Backbone = EmptyMap
    /\ fGenVEdepStrand1Base = EmptyMap /\ fGenVEdepStrand2Base = EmptyMap
    /\ fVEdepStrand1Backbone \in {DamagedAt(S) : S \in DrawnSiteSets}
    /\ fVEdepStrand2Backbone \in {DamagedAt(S) : S \in DrawnSiteSets}
    /\ fVEdepStrand1Base = EmptyMap /\ fVEdepStrand2Base = EmptyMap
    /\ fIndicesSSB1 = RecordSimpleDamage(fThresEdepForSSB, fVEdepStrand1Backbone)
    /\ fIndicesSSB2 = RecordSimpleDamage(fThresEdepForSSB, fVEdepStrand2Backbone)
    /\ fIndicesBD1 = <<>> /\ fIndicesBD2 = <<>> /\ fIndicesDSB1D = <<>>
    /\ fIndicesSimple = <<>>
    /\ IdleLocals /\ IdleEvent
    /\ IdlePairing
    /\ entry = EntryOf(Members)
    /\ pc = "dsb_call"

\* line 328: fIndicesDSB1D = RecordDSB1D(), which erases the paired sites from
\* fIndicesSSB1 and fIndicesSSB2
DSBCall ==
    /\ pc = "dsb_call"
    /\ LET D == RecordDSB1D(fIndicesSSB1, fIndicesSSB2, fThresDistForDSB)
       IN  /\ fIndicesSSB1' = D.ssb1
           /\ fIndicesSSB2' = D.ssb2
           /\ fIndicesDSB1D' = D.dsb
    /\ pc' = "dsb_done"
    /\ UNCHANGED <<configVars, stepVars, pairVars, genVars, fibreVars, fIndicesBD1, fIndicesBD2, fIndicesSimple,
                   memberVars, simpleVars, scanVars, hookVars, eventVars, entry>>

\* line 336: fIndicesSimple = CombineSimpleDamage()
CombineCall ==
    /\ pc = "dsb_done"
    /\ fIndicesSimple' = CombineSimpleDamage(fIndicesSSB1, fIndicesBD1, fIndicesSSB2,
                                             fIndicesBD2, fIndicesDSB1D)
    /\ pc' = "combined"
    /\ UNCHANGED <<configVars, stepVars, pairVars, genVars, fibreVars, listVars, memberVars, simpleVars,
                   scanVars, hookVars, eventVars, entry>>

NextDSB == DSBCall \/ CombineCall

SpecDSB == InitDSB /\ [][NextDSB]_vars

----------------------------------------------------------------------------
\* SpecPairing: RecordDSB1D (line 328), one iteration of its loop at a time, on the SSB
\* lists RecordSimpleDamage returned for drawn backbone maps, for a drawn DSB distance

InitPairing ==
    /\ fPm = EmptyMap
    /\ fThresDistForDSB \in 0..MaxDist
    /\ fThresEdepForSSB = DefaultThresEdep
    /\ fThresEdepForBD = DefaultThresEdep
    /\ fThresDistForCluster = DefaultThresDistForCluster
    /\ fNbOfAlgo = DefaultNbOfAlgo
    /\ ConstructedMembers
    /\ fGenVEdepStrand1Backbone = EmptyMap /\ fGenVEdepStrand2Backbone = EmptyMap
    /\ fGenVEdepStrand1Base = EmptyMap /\ fGenVEdepStrand2Base = EmptyMap
    /\ fVEdepStrand1Backbone \in {DamagedAt(S) : S \in SUBSET (0..MaxPairSite)}
    /\ fVEdepStrand2Backbone \in {DamagedAt(S) : S \in SUBSET (0..MaxPairSite)}
    /\ fVEdepStrand1Base = EmptyMap /\ fVEdepStrand2Base = EmptyMap
    /\ fIndicesSSB1 = RecordSimpleDamage(fThresEdepForSSB, fVEdepStrand1Backbone)
    /\ fIndicesSSB2 = RecordSimpleDamage(fThresEdepForSSB, fVEdepStrand2Backbone)
    /\ fIndicesBD1 = <<>> /\ fIndicesBD2 = <<>> /\ fIndicesDSB1D = <<>>
    /\ fIndicesSimple = <<>>
    /\ IdleLocals /\ IdleEvent /\ IdlePairing
    /\ entry = EntryOf(Members)
    /\ pc = "dsb_entry"

\* the locals of RecordDSB1D, as the record DSBIter works on
PairingLocals ==
    [ssb1 |-> fIndicesSSB1, ssb2 |-> fIndicesSSB2, site1 |-> site1, site2 |-> site2,
     dsb |-> indicesDSB1D]

\* line 428: the condition of the while loop
DSBLoopGoesOn == site1 <= Len(fIndicesSSB1) /\ site2 <= Len(fIndicesSSB2)

\* lines 419-426: the cursors are set to the beginning of the two lists
DSBEnter ==
    /\ pc = "dsb_entry"
    /\ site1' = 1 /\ site2' = 1
    /\ indicesDSB1D' = <<>>
    /\ hIterations' = 0
    /\ pc' = "dsb_loop"
    /\ UNCHANGED <<configVars, stepVars, genVars, fibreVars, listVars, fIndicesSimple,
                   memberVars, simpleVars, scanVars, hookVars, eventVars, entry>>

\* lines 428-454: one iteration of the while loop
DSBStep ==
    /\ pc = "dsb_loop"
    /\ DSBLoopGoesOn
    /\ LET D == DSBIter(fThresDistForDSB, PairingLocals)
       IN  /\ fIndicesSSB1' = D.ssb1
           /\ fIndicesSSB2' = D.ssb2
           /\ site1' = D.site1
           /\ site2' = D.site2
           /\ indicesDSB1D' = D.dsb
    /\ hIterations' = hIterations + 1
    /\ UNCHANGED <<configVars, stepVars, genVars, fibreVars, fIndicesBD1, fIndicesBD2,
                   fIndicesDSB1D, fIndicesSimple, memberVars, simpleVars, scanVars, hookVars,
                   eventVars, entry, pc>>

\* lines 456 and 328: the loop is left and the list is returned and stored
DSBReturn ==
    /\ pc = "dsb_loop"
    /\ ~DSBLoopGoesOn
    /\ fIndicesDSB1D' = indicesDSB1D
    /\ pc' = "dsb_done"
    /\ UNCHANGED <<configVars, stepVars, pairVars, genVars, fibreVars, fIndicesSSB1,
                   fIndicesSSB2, fIndicesBD1, fIndicesBD2, fIndicesSimple, memberVars,
                   simpleVars, scanVars, hookVars, eventVars, entry>>

NextPairing == DSBEnter \/ DSBStep \/ DSBReturn

SpecPairing == InitPairing /\ [][NextPairing]_vars

\* the loop of RecordDSB1D is not held up
SpecPairingFair == SpecPairing /\ WF_vars(NextPairing)

----------------------------------------------------------------------------
\* SpecConfig: the constructor on drawn energy threshold parameters, then one pass of
\* the loop over the splits on drawn deposits of strand 1

\* the threshold parameters drawn: one below and one above the default
ParamThresEdep == {DefaultThresEdep - 1, DefaultThresEdep + 1}

ParamFilesOfThresholds ==
    WellTyped([n \in {"EnergyThresholdForHavingSSB", "EnergyThresholdForHavingBD",
                       "EnergyThresholdToInduceBD"} |-> ParamThresEdep])

\* split -> bp -> energy: nothing, or one deposit at bp 0 of split 0
DrawnDeposits == {EmptyMap} \cup {(0 :> (0 :> e)) : e \in DrawnEdep}

InitConfig ==
    /\ fPm \in ParamFilesOfThresholds
    /\ Constructed
    /\ ConstructedMembers /\ ConstructedLists
    /\ fGenVEdepStrand1Backbone = EmptyMap /\ fGenVEdepStrand2Backbone = EmptyMap
    /\ fGenVEdepStrand1Base = EmptyMap /\ fGenVEdepStrand2Base = EmptyMap
    /\ fVEdepStrand1Backbone \in DrawnDeposits
    /\ fVEdepStrand2Backbone = EmptyMap
    /\ fVEdepStrand1Base \in DrawnDeposits
    /\ fVEdepStrand2Base = EmptyMap
    /\ fIndicesSimple = <<>>
    /\ ThreshEDep = 0 /\ mapEDep = EmptyMap /\ indicesDamage = <<>>
    /\ site = 0 /\ cluster = DamageCluster /\ newCluster = TRUE /\ buildingCluster = FALSE
    /\ fibresLeft = {0} /\ parentDepth = 0 /\ i = 0
    /\ IdleEvent
    /\ IdlePairing
    /\ entry = EntryOf(Members)
    /\ pc = IF Constructor(fPm).aborted THEN "exited" ELSE "split"

NextConfig == SplitPass \/ FibreEnd

SpecConfig == InitConfig /\ [][NextConfig]_vars

----------------------------------------------------------------------------
\* SpecHit: ProcessHits called, up to MaxHits times, with one drawn step on a newly
\* constructed scorer with a drawn NumberOfSplit

\* the steps drawn: no or some energy, strand index 0..2, residue index 0..3, split
\* track id 1..4
DrawnSteps ==
    [edep : {0, DefaultThresEdep},
     volID : {VolID(s, r, 0) : s \in 0..2, r \in 0..3},
     fibre : {0},
     splitTrackID : 1..4]

InitHit ==
    /\ fPm \in WellTyped([n \in {"NumberOfSplit"} |-> ParamNumberOfSplit \ {DefaultNbOfAlgo}])
    /\ Constructed
    /\ aStep \in DrawnSteps
    /\ stepsOfEvent = <<>>
    /\ ConstructedMembers /\ ConstructedMaps /\ ConstructedLists
    /\ fIndicesSimple = <<>>
    /\ IdleLocals
    /\ fEventID = 0 /\ fNtuple = <<>> /\ nEvents = 0 /\ nHits = 0 /\ hUnclusteredDSB = 0
    /\ IdlePairing
    /\ entry = EntryOf(Members)
    /\ pc = "hits"

NextHit == ProcessHits(aStep.edep, aStep.volID, aStep.fibre, aStep.splitTrackID)

SpecHit == InitHit /\ [][NextHit]_vars

----------------------------------------------------------------------------
\* SpecEvent: the steps of one drawn event handed to ProcessHits, one after the other,
\* on a newly constructed scorer with a drawn SSB energy threshold

\* the energies drawn: the smallest one, and the first one at which the spacing of the
\* doubles is wider than that
EventEdep == {1, Pow2(MantissaBits)}

\* the volumes drawn: backbone and base of strand 1, backbone of strand 2, all at bp 0
EventVolIDs == {VolID(0, 0, 0), VolID(0, 2, 0), VolID(1, 1, 0)}

EventSteps == [edep : EventEdep, volID : EventVolIDs, fibre : {0}, splitTrackID : {1}]

\* the events drawn: up to MaxSteps steps in any order
DrawnEvents == UNION {[1..n -> EventSteps] : n \in 0..MaxSteps}

\* the SSB energy threshold drawn besides the default
EventThresEdep == {Pow2(MantissaBits) + 2}

InitEvent ==
    /\ fPm \in WellTyped([n \in {"EnergyThresholdForHavingSSB"} |-> EventThresEdep])
    /\ Constructed
    /\ aStep = NoStep
    /\ stepsOfEvent \in DrawnEvents
    /\ ConstructedMembers /\ ConstructedMaps /\ ConstructedLists
    /\ fIndicesSimple = <<>>
    /\ IdleLocals
    /\ fEventID = 0 /\ fNtuple = <<>> /\ nEvents = 0 /\ nHits = 0 /\ hUnclusteredDSB = 0
    /\ IdlePairing
    /\ entry = EntryOf(Members)
    /\ pc = "hits"

\* the next step of the event is handed to ProcessHits
NextEvent ==
    /\ nHits < Len(stepsOfEvent)
    /\ LET step == stepsOfEvent[nHits + 1]
       IN  ProcessHitsCall(step.edep, step.volID, step.fibre, step.splitTrackID)

SpecEvent == InitEvent /\ [][NextEvent]_vars

----------------------------------------------------------------------------
\* Claims on RecordClusteredDamage (SpecCluster)

\* the entries a pass appended to a detail vector that held n entries on entry
Appended(vec, n) == SubSeq(vec, n + 1, Len(vec))

\* C1: cluster tally conservation for SSB and BD.  When RecordClusteredDamage has
\* returned, the SSB tally it was entered with equals the SSB tally it leaves plus the
\* SSB sub-counts of all clusters (Complex DSB and Non-DSB) recorded by the pass, and
\* the same for BD.
C1_TallyConservation ==
    pc = "cl_done" =>
        /\ entry.fTotalSSB = fTotalSSB
              + SeqSum(Appended(fComplexDSBNumSSB, entry.nComplexDSB))
              + SeqSum(Appended(fNonDSBClusterNumSSB, entry.nNonDSBCluster))
        /\ entry.fTotalBD = fTotalBD
              + SeqSum(Appended(fComplexDSBNumBD, entry.nComplexDSB))
              + SeqSum(Appended(fNonDSBClusterNumBD, entry.nNonDSBCluster))

\* a pass entered with carried tallies that recorded a Complex DSB and a Non-DSB
\* cluster holding SSBs and a BD
C1_Witness ==
    /\ pc = "cl_done"
    /\ entry.fTotalSSB > CountType(fIndicesSimple, fIdSSB)
    /\ Len(fComplexDSBNumSSB) = 1 /\ Len(fNonDSBClusterNumSSB) = 1
    /\ fComplexDSBNumSSB[1] + fNonDSBClusterNumSSB[1] >= 2
    /\ fComplexDSBNumBD[1] + fNonDSBClusterNumBD[1] >= 1

\* the gap between the sites k and k+1 of s is within the threshold
GapWithin(s, k, thres) == s[k + 1][1] - s[k][1] <= thres

\* the maximal runs <<a, b>> of two or more consecutive sites with all gaps within
\* the threshold
Runs(s, thres) ==
    {r \in (1..Len(s)) \X (1..Len(s)) :
        /\ r[1] < r[2]
        /\ \A k \in r[1]..(r[2] - 1) : GapWithin(s, k, thres)
        /\ (r[1] = 1 \/ ~GapWithin(s, r[1] - 1, thres))
        /\ (r[2] = Len(s) \/ ~GapWithin(s, r[2], thres))}

\* the k-th run in the order of the sequence
RunAt(R, k) == CHOOSE r \in R : Cardinality({q \in R : q[1] < r[1]}) = k - 1

\* C3: cluster boundaries.  When RecordClusteredDamage has returned, it has recorded
\* exactly one cluster per maximal run of two or more consecutive sites whose gaps are
\* all within the threshold, in the order of the runs; the cluster starts at the run's
\* first bp index, ends at its last, and absorbed each site of the run once.
C3_ClusterBoundaries ==
    pc = "cl_done" =>
        LET R == Runs(fIndicesSimple, fThresDistForCluster)
            new == Appended(hRecorded, entry.nRecorded)
        IN  /\ Len(new) = Cardinality(R)
            /\ (Len(fComplexDSBSizes) - entry.nComplexDSB)
                  + (Len(fNonDSBClusterSizes) - entry.nNonDSBCluster) = Cardinality(R)
            /\ \A k \in 1..Len(new) :
                  LET r == RunAt(R, k)
                  IN  /\ new[k].start = fIndicesSimple[r[1]][1]
                      /\ new[k].end = fIndicesSimple[r[2]][1]
                      /\ new[k].numSSB + new[k].numBD + new[k].numDSB = r[2] - r[1] + 1

\* a pass over two runs, one of them closed by a gap one above the threshold
C3_Witness ==
    /\ pc = "cl_done"
    /\ Cardinality(Runs(fIndicesSimple, fThresDistForCluster)) = 2
    /\ \E k \in 1..(Len(fIndicesSimple) - 1) :
          fIndicesSimple[k + 1][1] - fIndicesSimple[k][1] = fThresDistForCluster + 1
    /\ \E k \in 1..(Len(fIndicesSimple) - 1) :
          fIndicesSimple[k + 1][1] - fIndicesSimple[k][1] = fThresDistForCluster

\* the runs that hold at least one DSB-tagged site
RunsWithDSB(s, thres) ==
    {r \in Runs(s, thres) : \E k \in r[1]..r[2] : s[k][2] = fIdDSB}

\* C4: Complex DSB versus Non-DSB Cluster.  When RecordClusteredDamage has returned,
\* the Complex DSB counter and each Complex DSB detail vector grew by the number of
\* runs that hold a DSB-tagged site, the Non-DSB Cluster counter and vectors by the
\* number of runs that hold none: every cluster was counted once, on one side.
C4_Classification ==
    pc = "cl_done" =>
        LET R == Runs(fIndicesSimple, fThresDistForCluster)
            RD == RunsWithDSB(fIndicesSimple, fThresDistForCluster)
            nC == Cardinality(RD)
            nN == Cardinality(R \ RD)
        IN  /\ fTotalComplexDSB - entry.fTotalComplexDSB = nC
            /\ fTotalNonDSBCluster - entry.fTotalNonDSBCluster = nN
            /\ Len(fComplexDSBSizes) - entry.nComplexDSB = nC
            /\ Len(fComplexDSBNumSSB) = Len(fComplexDSBSizes)
            /\ Len(fComplexDSBNumBD) = Len(fComplexDSBSizes)
            /\ Len(fComplexDSBNumDSB) = Len(fComplexDSBSizes)
            /\ Len(fComplexDSBNumDamage) = Len(fComplexDSBSizes)
            /\ Len(fNonDSBClusterSizes) - entry.nNonDSBCluster = nN
            /\ Len(fNonDSBClusterNumSSB) = Len(fNonDSBClusterSizes)
            /\ Len(fNonDSBClusterNumBD) = Len(fNonDSBClusterSizes)
            /\ Len(fNonDSBClusterNumDamage) = Len(fNonDSBClusterSizes)
            /\ nC = Cardinality({k \in (entry.nRecorded + 1)..Len(hRecorded) :
                                    hRecorded[k].numDSB >= 1})
            /\ nC + nN = Len(hRecorded) - entry.nRecorded

\* a pass that recorded a Complex DSB holding one DSB entry beside an SSB and a BD,
\* and one that recorded a Non-DSB Cluster
C4_Witness ==
    /\ pc = "cl_done"
    /\ \/ /\ fTotalComplexDSB = 1
          /\ hRecorded[1].numDSB = 1 /\ hRecorded[1].numSSB >= 1 /\ hRecorded[1].numBD >= 1
       \/ /\ fTotalComplexDSB = 1 /\ fTotalNonDSBCluster = 1

----------------------------------------------------------------------------
\* Claims on one pass (SpecPass)

\* the pass of SpecPass has run
PassDone == pc = "split" /\ i = 1

\* C2: cluster tally conservation for DSB.  For any DSB distance threshold and any
\* cluster distance threshold, after the pass of a fibre the number of whole DSBs found
\* by RecordDSB1D (half the entries of fIndicesDSB1D) equals the halved fTotalDSB plus
\* the halved numDSB of the Complex DSBs recorded: the two halvings lose no DSB.
C2_DSBConservation ==
    PassDone => Len(fIndicesDSB1D) \div 2 = fTotalDSB + SeqSum(fComplexDSBNumDSB)

----------------------------------------------------------------------------
\* Claims on RecordSimpleDamage (SpecSimple)

\* RecordSimpleDamage has returned at least once
SimpleReturned == pc = "sd_call" /\ i >= 1

\* C9: drain completeness.  After RecordSimpleDamage has run on fVEdepStrand1Backbone,
\* the map as the caller holds it has no entry left in the split that was read, and a
\* further extraction from the same map returns an empty list.
C9_DrainCompleteness ==
    /\ SimpleReturned => DOMAIN Sub(fVEdepStrand1Backbone, 0) = {}
    /\ (pc = "sd_call" /\ i >= 2) => fIndicesSSB1 = <<>>

\* C10: the returned sites.  For any map and threshold, RecordSimpleDamage returns the
\* keys of the split it reads whose energy is at or above the threshold, each once and
\* in strictly ascending order; a key below the threshold is not returned.
C10_SitesAtOrAboveThreshold ==
    SimpleReturned =>
        LET m0 == Sub(fVEdepStrand1Backbone, 0)
        IN  /\ {fIndicesSSB1[k] : k \in 1..Len(fIndicesSSB1)}
                  = {indexBP \in DOMAIN m0 : m0[indexBP] >= fThresEdepForSSB}
            /\ \A k \in 1..(Len(fIndicesSSB1) - 1) : fIndicesSSB1[k] < fIndicesSSB1[k + 1]

\* a return on a map holding a key at the threshold, one below and one above it
C10_Witness ==
    /\ SimpleReturned
    /\ LET m0 == Sub(fVEdepStrand1Backbone, 0)
       IN  /\ \E indexBP \in DOMAIN m0 : m0[indexBP] = fThresEdepForSSB
           /\ \E indexBP \in DOMAIN m0 : m0[indexBP] = fThresEdepForSSB - 1
           /\ \E indexBP \in DOMAIN m0 : m0[indexBP] > fThresEdepForSSB
    /\ Len(fIndicesSSB1) = 2

----------------------------------------------------------------------------
\* Claims on the run of events (Spec)

\* the loop over the fibres of the current event has not started
AtStartOfHook == pc = "fibre" /\ fibresLeft = DOMAIN fGenVEdepStrand1Backbone

\* the loop over the fibres of the current event has ended
AtEndOfFibres == pc = "fibre" /\ fibresLeft = {}

\* C5: one halving per event.  When every fibre and every split of the first event has
\* been processed, fTotalDSB is half of the DSB list entries left unclustered over all
\* fibres and splits of the event.
C5_HalvedOncePerEvent ==
    (AtEndOfFibres /\ nEvents = 0) => fTotalDSB = hUnclusteredDSB \div 2

\* C6: the tallies of an event.  When the processing of an event starts, the five
\* tallies are 0.
C6_TalliesZeroAtEventStart ==
    AtStartOfHook =>
        /\ fTotalSSB = 0 /\ fTotalBD = 0 /\ fTotalDSB = 0
        /\ fTotalComplexDSB = 0 /\ fTotalNonDSBCluster = 0

\* a fibre -> split -> bp -> energy map that holds no deposit
HoldsNoDeposit(gen) ==
    \A fibre \in DOMAIN gen : \A split \in DOMAIN gen[fibre] : DOMAIN gen[fibre][split] = {}

\* C7: the maps of an event.  When the end-of-event pass of an event returns, none of
\* the four accumulated-energy maps retains a deposit.
C7_MapsEmptyAfterEvent ==
    [][(pc = "fibre" /\ pc' = "hits") =>
          /\ HoldsNoDeposit(fGenVEdepStrand1Backbone')
          /\ HoldsNoDeposit(fGenVEdepStrand2Backbone')
          /\ HoldsNoDeposit(fGenVEdepStrand1Base')
          /\ HoldsNoDeposit(fGenVEdepStrand2Base')]_vars

\* the rows filled for the current event
RowsOfEvent == {k \in 1..Len(fNtuple) : fNtuple[k].fEventID = fEventID}

\* a tally is nonzero
SomeTally ==
    fTotalSSB > 0 \/ fTotalBD > 0 \/ fTotalDSB > 0 \/ fTotalComplexDSB > 0
        \/ fTotalNonDSBCluster > 0

\* C8 as stated: one row per event.  When the fibres of the first event have been
\* processed, exactly one row has been filled for it if a tally is nonzero and none
\* otherwise, whatever the number of fibres hit and of splits.
C8_OneRowPerEvent ==
    (AtEndOfFibres /\ nEvents = 0) =>
        Cardinality(RowsOfEvent) = IF SomeTally THEN 1 ELSE 0

\* C8 amended: one row per pass.  Each pass of the loop over the splits, made for each
\* fibre of the strand-1 backbone map, fills exactly one row, holding the event number
\* and the five tallies as they stand after the pass, if one of the tallies is then
\* nonzero, and no row otherwise; no other step fills a row.
C8_OneRowPerPass ==
    [][IF pc = "split" /\ i' = i + 1
       THEN fNtuple' = IF SomeTally'
                       THEN Append(fNtuple,
                                   [fEventID |-> fEventID, fTotalSSB |-> fTotalSSB',
                                    fTotalDSB |-> fTotalDSB', fTotalBD |-> fTotalBD',
                                    fTotalComplexDSB |-> fTotalComplexDSB',
                                    fTotalNonDSBCluster |-> fTotalNonDSBCluster'])
                       ELSE fNtuple
       ELSE fNtuple' = fNtuple]_vars

\* an event of two fibres and two splits, four passes, of which two filled a row
C8_Witness ==
    /\ AtEndOfFibres
    /\ fNbOfAlgo = 2
    /\ Cardinality(DOMAIN fGenVEdepStrand1Backbone) = 2
    /\ Len(fNtuple) = 2
    /\ Cardinality(RowsOfEvent) = 2

----------------------------------------------------------------------------
\* Claims on the configuration (SpecConfig)

\* the value the parameters give a threshold: the parameter of that name, or the default
ConfiguredThreshold(name) == IF name \in DOMAIN fPm THEN fPm[name] ELSE DefaultThresEdep

\* the keys of split 0 of a map whose energy is at or above a threshold
SitesAtOrAbove(map, thres) ==
    {indexBP \in DOMAIN Sub(map, 0) : Sub(map, 0)[indexBP] >= thres}

\* the elements of a list
Elements(list) == {list[k] : k \in 1..Len(list)}

\* C11: independent thresholds.  Once the scorer is constructed, the SSB threshold is the
\* value of EnergyThresholdForHavingSSB and the BD threshold the value of
\* EnergyThresholdForHavingBD (the default where the parameter is left out), and a pass
\* extracts the SSBs from the Backbone map with the former and the BDs from the Base map
\* with the latter.
C11_IndependentThresholds ==
    pc # "exited" =>
        /\ fThresEdepForSSB = ConfiguredThreshold("EnergyThresholdForHavingSSB")
        /\ fThresEdepForBD = ConfiguredThreshold("EnergyThresholdForHavingBD")
        /\ PassDone =>
              /\ Elements(fIndicesSSB1)
                    = SitesAtOrAbove(fVEdepStrand1Backbone,
                                     ConfiguredThreshold("EnergyThresholdForHavingSSB"))
              /\ Elements(fIndicesBD1)
                    = SitesAtOrAbove(fVEdepStrand1Base,
                                     ConfiguredThreshold("EnergyThresholdForHavingBD"))

----------------------------------------------------------------------------
\* Claims on RecordDSB1D and CombineSimpleDamage (SpecDSB)

\* the SSB lists RecordDSB1D was called with
EnteredSSB1 == RecordSimpleDamage(fThresEdepForSSB, fVEdepStrand1Backbone)
EnteredSSB2 == RecordSimpleDamage(fThresEdepForSSB, fVEdepStrand2Backbone)

\* RecordDSB1D has returned
DSBReturned == pc \in {"dsb_done", "combined"}

\* every strand-1 site is farther than the threshold from every strand-2 site
AllPairsApart ==
    \A k1 \in 1..Len(EnteredSSB1) : \A k2 \in 1..Len(EnteredSSB2) :
        (EnteredSSB2[k2] - EnteredSSB1[k1] > fThresDistForDSB)
            \/ (EnteredSSB1[k1] - EnteredSSB2[k2] > fThresDistForDSB)

\* C12: DSB pairing distance law.  When every cross-strand pair of sites of the two
\* sorted SSB lists is farther apart than the threshold, RecordDSB1D returns an empty
\* DSB list and leaves both SSB lists as they were.
C12_PairingDistanceLaw ==
    (DSBReturned /\ AllPairsApart) =>
        /\ fIndicesDSB1D = <<>>
        /\ fIndicesSSB1 = EnteredSSB1
        /\ fIndicesSSB2 = EnteredSSB2

\* a return on two interleaved lists of two and more sites with no pair within a
\* threshold of at least 1
C12_Witness ==
    /\ pc = "dsb_done"
    /\ AllPairsApart
    /\ fThresDistForDSB >= 1
    /\ Len(EnteredSSB1) >= 2 /\ Len(EnteredSSB2) >= 2
    /\ EnteredSSB2[1] < EnteredSSB1[1] /\ EnteredSSB1[1] < EnteredSSB2[2]

\* C13: the DSB list is ordered overall.  For every pair of sorted SSB lists and every
\* threshold, the list RecordDSB1D returns is in non-decreasing order over all
\* consecutive positions, the boundary between one pair and the next included.
C13_DSBListOrdered ==
    DSBReturned =>
        \A k \in 1..(Len(fIndicesDSB1D) - 1) : fIndicesDSB1D[k] <= fIndicesDSB1D[k + 1]

\* RecordDSB1D has returned for strand-1 sites {0,3,5,9}, strand-2 sites {2,8} and the
\* threshold 1
Scenario1 ==
    /\ DSBReturned
    /\ EnteredSSB1 = <<0, 3, 5, 9>>
    /\ EnteredSSB2 = <<2, 8>>
    /\ fThresDistForDSB = 1

\* C14 as stated: scenario 1 yields no DSB and leaves the six sites in their lists.
C14_Scenario1NoDSB ==
    Scenario1 =>
        /\ fIndicesDSB1D = <<>>
        /\ fIndicesSSB1 = <<0, 3, 5, 9>>
        /\ fIndicesSSB2 = <<2, 8>>

\* C14 amended: in scenario 1 the sites 3 and 2, and 9 and 8, are at distance 1, which
\* is within the threshold, so RecordDSB1D returns the two DSBs <<2, 3, 8, 9>> and leaves
\* the sites 0 and 5 in the strand-1 list and no site in the strand-2 list.
C14_Scenario1TwoDSB ==
    Scenario1 =>
        /\ fIndicesDSB1D = <<2, 3, 8, 9>>
        /\ fIndicesSSB1 = <<0, 5>>
        /\ fIndicesSSB2 = <<>>

\* scenario 1 has run
C14_Witness == Scenario1 /\ pc = "dsb_done"

\* C15: order within a pair.  In every pair RecordDSB1D emits (positions 2k-1 and 2k of
\* the list, 1-based) the smaller bp index comes first, the pair is one strand-1 site
\* and one strand-2 site within the threshold, and strand-1 sites <<5>> with strand-2
\* sites <<5>> yield exactly <<5, 5>> and leave both SSB lists empty.
C15_PairOrder ==
    DSBReturned =>
        /\ Len(fIndicesDSB1D) % 2 = 0
        /\ \A k \in 1..(Len(fIndicesDSB1D) \div 2) :
              LET lo == fIndicesDSB1D[2 * k - 1]
                  hi == fIndicesDSB1D[2 * k]
              IN  /\ lo <= hi
                  /\ hi - lo <= fThresDistForDSB
                  /\ \/ lo \in Elements(EnteredSSB1) /\ hi \in Elements(EnteredSSB2)
                     \/ lo \in Elements(EnteredSSB2) /\ hi \in Elements(EnteredSSB1)
        /\ (EnteredSSB1 = <<5>> /\ EnteredSSB2 = <<5>>) =>
              /\ fIndicesDSB1D = <<5, 5>>
              /\ fIndicesSSB1 = <<>>
              /\ fIndicesSSB2 = <<>>

\* the return for strand-1 sites <<5>> and strand-2 sites <<5>>, and a return with a
\* pair whose strand-2 site is the smaller
C15_Witness ==
    /\ pc = "dsb_done"
    /\ \/ EnteredSSB1 = <<5>> /\ EnteredSSB2 = <<5>> /\ fIndicesDSB1D = <<5, 5>>
       \/ EnteredSSB1 = <<3>> /\ EnteredSSB2 = <<2>> /\ fIndicesDSB1D = <<2, 3>>

\* C16: the combined sequence is ordered.  For every DSB distance threshold, the
\* sequence CombineSimpleDamage builds from the residual SSB lists, the BD lists and the
\* DSB list is in non-decreasing bp index order.
C16_CombinedOrdered ==
    pc = "combined" => IsOrdered(fIndicesSimple)

----------------------------------------------------------------------------
\* Further claims on RecordClusteredDamage (SpecCluster)

\* C17: single-damage no-op.  When the ordered damage sequence holds fewer than two
\* sites, RecordClusteredDamage records no cluster, changes neither fTotalComplexDSB nor
\* fTotalNonDSBCluster, and leaves fTotalSSB, fTotalBD and fTotalDSB as they were on
\* entry.
C17_SingleDamageNoOp ==
    (pc = "cl_done" /\ Len(fIndicesSimple) < 2) =>
        /\ Len(hRecorded) = entry.nRecorded
        /\ Len(fComplexDSBSizes) = entry.nComplexDSB
        /\ Len(fNonDSBClusterSizes) = entry.nNonDSBCluster
        /\ fTotalComplexDSB = entry.fTotalComplexDSB
        /\ fTotalNonDSBCluster = entry.fTotalNonDSBCluster
        /\ fTotalSSB = entry.fTotalSSB
        /\ fTotalBD = entry.fTotalBD
        /\ fTotalDSB = entry.fTotalDSB

\* a return on a sequence of one site, with a DSB tally that a halving would change
C17_Witness ==
    /\ pc = "cl_done"
    /\ Len(fIndicesSimple) = 1
    /\ fTotalDSB >= 1
    /\ fTotalSSB + fTotalBD >= 1

----------------------------------------------------------------------------
\* Further claims on the run of events (Spec)

\* the keys of one split of a map whose energy is at or above a threshold
SitesOfSplit(map, split, thres) ==
    {indexBP \in DOMAIN Sub(map, split) : Sub(map, split)[indexBP] >= thres}

\* C18: split copies are isolated.  With NumberOfSplit above 1, the pass of split index
\* i - 1 of a fibre, which has just run when the split index is i, has extracted the
\* SSBs of each strand from the energies accumulated under split i - 1 (all of them are
\* still in the SSB lists when the pass found no DSB).
C18_SplitIsolation ==
    (pc = "split" /\ i >= 1 /\ fNbOfAlgo > 1 /\ fIndicesDSB1D = <<>>) =>
        /\ Elements(fIndicesSSB1)
              = SitesOfSplit(fVEdepStrand1Backbone, i - 1, fThresEdepForSSB)
        /\ Elements(fIndicesSSB2)
              = SitesOfSplit(fVEdepStrand2Backbone, i - 1, fThresEdepForSSB)

----------------------------------------------------------------------------
\* Claims on ProcessHits (SpecHit)

\* strand and residue index of the volume of the step
StepStrand == aStep.volID \div 1000000
StepResidue == (aStep.volID % 1000000) \div 100000

\* the step is scored: positive energy and strand index 0 or 1
StepScored == aStep.edep > 0 /\ StepStrand \in {0, 1}

\* C19: hit routing by residue.  After ProcessHits was called with a step, for every
\* NumberOfSplit and split track id: the Backbone map of the step's strand holds a
\* deposit exactly if the step is scored and its residue index is 0 or 1, the Base map
\* of that strand exactly if it is scored and its residue index is 2, and no other map
\* holds a deposit.
C19_RoutingByResidue ==
    nHits >= 1 =>
        /\ ~HoldsNoDeposit(fGenVEdepStrand1Backbone)
              <=> (StepScored /\ StepStrand = 0 /\ StepResidue \in {0, 1})
        /\ ~HoldsNoDeposit(fGenVEdepStrand2Backbone)
              <=> (StepScored /\ StepStrand = 1 /\ StepResidue \in {0, 1})
        /\ ~HoldsNoDeposit(fGenVEdepStrand1Base)
              <=> (StepScored /\ StepStrand = 0 /\ StepResidue = 2)
        /\ ~HoldsNoDeposit(fGenVEdepStrand2Base)
              <=> (StepScored /\ StepStrand = 1 /\ StepResidue = 2)

----------------------------------------------------------------------------
\* Claims on an unknown damage type label (SpecTag)

\* the site at position k carries an unknown label
UnknownAt(k) == fIndicesSimple[k][2] \notin DamageTypes

\* the iteration the scan is about to run absorbs a site with an unknown label: the
\* current site is within the threshold of the previous one, and either it carries the
\* label or the previous one does and opens the cluster
AbsorbsUnknown ==
    /\ pc = "cl_loop"
    /\ site <= Len(fIndicesSimple)
    /\ fIndicesSimple[site][1] - fIndicesSimple[site - 1][1] <= fThresDistForCluster
    /\ UnknownAt(site) \/ (newCluster /\ UnknownAt(site - 1))

\* a site with an unknown label lies within the threshold of a neighbour
UnknownInRun ==
    \E k \in 1..(Len(fIndicesSimple) - 1) :
        /\ fIndicesSimple[k + 1][1] - fIndicesSimple[k][1] <= fThresDistForCluster
        /\ UnknownAt(k) \/ UnknownAt(k + 1)

\* C20: an unknown label is fatal.  The iteration that absorbs a site with an unknown
\* label into a cluster ends the run at that site: the scan does not advance, no cluster
\* and no row is recorded by that iteration, and nothing runs afterwards; and
\* RecordClusteredDamage never returns when a site with an unknown label had to be
\* absorbed, so such a site is not silently skipped.
C20_UnknownLabelFatal ==
    [][/\ AbsorbsUnknown =>
             /\ pc' = "exited"
             /\ site' = site
             /\ hRecorded' = hRecorded
             /\ fTotalComplexDSB' = fTotalComplexDSB
             /\ fTotalNonDSBCluster' = fTotalNonDSBCluster
             /\ fNtuple' = fNtuple
       /\ pc # "exited"
       /\ pc' = "cl_done" => ~UnknownInRun]_vars

\* a run ended at a site with an unknown label that a known site had opened a cluster
\* for, with a site left unscanned
C20_Witness ==
    /\ pc = "exited"
    /\ site < Len(fIndicesSimple)
    /\ UnknownAt(site)
    /\ ~UnknownAt(site - 1)

----------------------------------------------------------------------------
\* Further claims on one pass (SpecPass)

\* C21: every recorded Complex DSB contains a DSB.  For any DSB distance threshold and
\* any cluster distance threshold, after the pass of a fibre every DSB count stored for
\* a Complex DSB (the halved count RecordCluster appends) is at least 1.
C21_ComplexDSBHoldsDSB ==
    PassDone => \A k \in 1..Len(fComplexDSBNumDSB) : fComplexDSBNumDSB[k] >= 1

----------------------------------------------------------------------------
\* Claims on the accumulation of one event (SpecEvent)

\* the four maps of a newly constructed scorer
NoDeposits ==
    [S1Backbone |-> EmptyMap, S2Backbone |-> EmptyMap, S1Base |-> EmptyMap, S2Base |-> EmptyMap]

\* the four maps after ProcessHits was called with the steps of the sequence, in order
RECURSIVE Accumulated(_, _)
Accumulated(G, steps) ==
    IF steps = <<>>
    THEN G
    ELSE Accumulated(ProcessHitsMaps(G, fNbOfAlgo, Head(steps).edep, Head(steps).volID,
                                     Head(steps).fibre, Head(steps).splitTrackID),
                     Tail(steps))

\* the orders in which the steps of the event can be handed over
OrdersOfEvent ==
    {[k \in 1..Len(stepsOfEvent) |-> stepsOfEvent[p[k]]] : p \in Permutations(1..Len(stepsOfEvent))}

\* every step of the event has been handed to ProcessHits
EventDelivered == pc = "hits" /\ nHits = Len(stepsOfEvent)

MapNames == {"S1Backbone", "S2Backbone", "S1Base", "S2Base"}

\* the keys <<fibre, split, bp>> of a map fibre -> split -> bp -> energy
Keys(gen) ==
    UNION {UNION {{<<f, sp, bp>> : bp \in DOMAIN gen[f][sp]} : sp \in DOMAIN gen[f]} :
              f \in DOMAIN gen}

\* the steps of the event (by position) whose energy is added at a key of a map
DepositsAt(name, key) ==
    {k \in 1..Len(stepsOfEvent) : key \in Keys(Accumulated(NoDeposits, <<stepsOfEvent[k]>>)[name])}

RECURSIVE SumOfEdep(_)
SumOfEdep(T) ==
    IF T = {} THEN 0 ELSE LET k == CHOOSE x \in T : TRUE
                          IN  stepsOfEvent[k].edep + SumOfEdep(T \ {k})

\* whatever the order, no addition at the key is rounded: the sum of every part of its
\* deposits is a double
NeverRounded(name, key) ==
    \A T \in SUBSET DepositsAt(name, key) : RoundToDouble(SumOfEdep(T)) = SumOfEdep(T)

\* the SSB and BD site lists RecordSimpleDamage returns for the maps of fibre 0
SiteLists(G) ==
    <<RecordSimpleDamage(fThresEdepForSSB, Sub(G.S1Backbone, 0)),
      RecordSimpleDamage(fThresEdepForSSB, Sub(G.S2Backbone, 0)),
      RecordSimpleDamage(fThresEdepForBD, Sub(G.S1Base, 0)),
      RecordSimpleDamage(fThresEdepForBD, Sub(G.S2Base, 0))>>

\* C22 as stated: accumulation is independent of the order of the hits.  Every order of
\* the steps of an event leaves identical energy sums at every key of the four maps, and
\* hence identical SSB and BD site lists.
C22_OrderIndependent ==
    EventDelivered =>
        \A steps \in OrdersOfEvent :
            /\ Accumulated(NoDeposits, steps) = GenMaps
            /\ SiteLists(Accumulated(NoDeposits, steps)) = SiteLists(GenMaps)

\* C22 amended: accumulation is independent of the order of the hits up to the rounding
\* of the sums.  Every order of the steps of an event creates the same keys in the four
\* maps, and leaves the identical sum at every key that received at most two deposits or
\* at which no sum of deposits needs rounding.
C22_OrderIndependentUpToRounding ==
    EventDelivered =>
        \A steps \in OrdersOfEvent : \A name \in MapNames :
            LET other == Accumulated(NoDeposits, steps)[name]
                here == GenMaps[name]
            IN  /\ DOMAIN other = DOMAIN here
                /\ Keys(other) = Keys(here)
                /\ \A key \in Keys(here) :
                      (Cardinality(DepositsAt(name, key)) <= 2 \/ NeverRounded(name, key))
                          => other[key[1]][key[2]][key[3]] = here[key[1]][key[2]][key[3]]

\* an event of three steps has been delivered in which a key received two deposits of
\* different energies, whose sum was rounded
C22_Witness ==
    /\ EventDelivered
    /\ Len(stepsOfEvent) = MaxSteps
    /\ \E key \in Keys(fGenVEdepStrand1Backbone) :
          LET D == DepositsAt("S1Backbone", key)
          IN  /\ Cardinality(D) = 2
              /\ \E k1, k2 \in D : stepsOfEvent[k1].edep < stepsOfEvent[k2].edep
              /\ fGenVEdepStrand1Backbone[key[1]][key[2]][key[3]] # SumOfEdep(D)

----------------------------------------------------------------------------
\* Further claims on RecordDSB1D and CombineSimpleDamage (SpecDSB)

\* the sites RecordDSB1D erased from the SSB list of a strand
Erased1 == Elements(EnteredSSB1) \ Elements(fIndicesSSB1)
Erased2 == Elements(EnteredSSB2) \ Elements(fIndicesSSB2)

\* the number of pairs in the DSB list
NumPairs == Len(fIndicesDSB1D) \div 2

\* C23: every DSB pair is one strand-1 site and one strand-2 site within the threshold.
\* Every pair RecordDSB1D emits is made of a site it erased from the strand-1 SSB list
\* and a site it erased from the strand-2 SSB list whose bp indices differ by at most
\* fThresDistForDSB; every erased site is in a pair, and no pair holds two sites of one
\* strand or two sites farther apart.
C23_PairsAcrossStrands ==
    DSBReturned =>
        /\ \A k \in 1..NumPairs :
              \E s1 \in Erased1, s2 \in Erased2 :
                  /\ {fIndicesDSB1D[2 * k - 1], fIndicesDSB1D[2 * k]} = {s1, s2}
                  /\ s1 - s2 <= fThresDistForDSB
                  /\ s2 - s1 <= fThresDistForDSB
        /\ Cardinality(Erased1) = NumPairs
        /\ Cardinality(Erased2) = NumPairs

\* a return with two pairs, the strand-2 site first in one and last in the other, and
\* a site left in each list
C23_Witness ==
    /\ pc = "dsb_done"
    /\ NumPairs = 2
    /\ fIndicesSSB1 # <<>> /\ fIndicesSSB2 # <<>>
    /\ \E k \in 1..2 : fIndicesDSB1D[2 * k - 1] \in Erased2 \ Erased1
    /\ \E k \in 1..2 : fIndicesDSB1D[2 * k - 1] \in Erased1 \ Erased2

----------------------------------------------------------------------------
\* Claims on the pairing within one pass (SpecMerge)

\* the number of entries of a list that hold the value v
CountOf(list, v) == Cardinality({k \in 1..Len(list) : list[k] = v})

\* C24: pairing partitions the SSB sites.  After the pass, every site RecordSimpleDamage
\* found on a backbone is in exactly one place: still in the SSB list of its strand, or
\* once in the DSB list; so the lengths of the two lists found equal the lengths of the
\* two lists left plus the length of the DSB list, which is even; and the SSB tally the
\* pass added (line 330) counts the sites left in the two lists only.
C24_PairingPartitions ==
    PassDone =>
        /\ Len(EnteredSSB1) + Len(EnteredSSB2)
              = Len(fIndicesSSB1) + Len(fIndicesSSB2) + Len(fIndicesDSB1D)
        /\ Len(fIndicesDSB1D) % 2 = 0
        /\ \A v \in Elements(EnteredSSB1) \cup Elements(EnteredSSB2) \cup Elements(fIndicesSSB1)
                       \cup Elements(fIndicesSSB2) \cup Elements(fIndicesDSB1D) :
              /\ CountOf(fIndicesSSB1, v) <= CountOf(EnteredSSB1, v)
              /\ CountOf(fIndicesSSB2, v) <= CountOf(EnteredSSB2, v)
              /\ CountOf(fIndicesDSB1D, v)
                    = (CountOf(EnteredSSB1, v) - CountOf(fIndicesSSB1, v))
                         + (CountOf(EnteredSSB2, v) - CountOf(fIndicesSSB2, v))
        /\ entry.fTotalSSB = Len(fIndicesSSB1) + Len(fIndicesSSB2)

\* a pass that paired two sites and left a site in the SSB list of each strand
C24_Witness ==
    /\ PassDone
    /\ Len(fIndicesDSB1D) = 2
    /\ Len(fIndicesSSB1) >= 1 /\ Len(fIndicesSSB2) >= 1
    /\ entry.fTotalSSB >= 2

----------------------------------------------------------------------------
\* Claims on CombineSimpleDamage within one pass (SpecMerge)

RECURSIVE Reversed(_)
Reversed(s) == IF s = <<>> THEN <<>> ELSE Append(Reversed(Tail(s)), Head(s))

\* the damage types of the entries of the combined sequence at the bp index v, in the
\* order in which they stand in the sequence
RECURSIVE TypesIn(_, _)
TypesIn(seq, v) ==
    IF seq = <<>> THEN <<>>
    ELSE IF Head(seq)[1] = v THEN <<Head(seq)[2]>> \o TypesIn(Tail(seq), v)
    ELSE TypesIn(Tail(seq), v)

\* v tagged with a type as many times as the list holds it
Tagged(list, v, type) == [k \in 1..CountOf(list, v) |-> type]

\* the damage types of the entries at the bp index v in the order in which their lists
\* are merged: SSB of strand 1, BD of strand 1, SSB of strand 2, BD of strand 2, DSB
TypesInMergeOrder(v) ==
    Tagged(fIndicesSSB1, v, fIdSSB) \o Tagged(fIndicesBD1, v, fIdBD)
        \o Tagged(fIndicesSSB2, v, fIdSSB) \o Tagged(fIndicesBD2, v, fIdBD)
        \o Tagged(fIndicesDSB1D, v, fIdDSB)

\* the bp indices of the five lists
MergedIndices ==
    Elements(fIndicesSSB1) \cup Elements(fIndicesBD1) \cup Elements(fIndicesSSB2)
        \cup Elements(fIndicesBD2) \cup Elements(fIndicesDSB1D)

\* C25 as stated: an entry of a later-merged list stands before the entries of the same
\* bp index merged earlier, so the entries at one bp index stand in the reverse of the
\* order of merging.
C25_LaterMergedFirst ==
    PassDone => \A v \in MergedIndices : TypesIn(fIndicesSimple, v) = Reversed(TypesInMergeOrder(v))

\* C25 amended: an entry of a later-merged list stands after the entries of the same bp
\* index merged earlier (the comparison of line 660 is strict), so the entries at one bp
\* index stand in the order of merging.
C25_LaterMergedLast ==
    PassDone => \A v \in MergedIndices : TypesIn(fIndicesSimple, v) = TypesInMergeOrder(v)

\* a pass whose combined sequence holds an SSB, a BD and a DSB entry at one bp index
C25_Witness ==
    /\ PassDone
    /\ \E v \in MergedIndices : {fIdSSB, fIdBD, fIdDSB} \subseteq Elements(TypesIn(fIndicesSimple, v))


\* the number of entries of the combined sequence that hold the bp index v and the type
CountTagged(seq, v, type) == Cardinality({k \in 1..Len(seq) : seq[k] = <<v, type>>})

\* C26: the merge loses and invents nothing.  The sequence CombineSimpleDamage returns
\* is as long as the five lists together and holds each bp index, tagged with the type
\* of its list, exactly as many times as the lists of that type hold it; entries of one
\* bp index and different types, or of different strands, are all kept.
C26_MergeKeepsAll ==
    PassDone =>
        /\ Len(fIndicesSimple) = Len(fIndicesSSB1) + Len(fIndicesBD1) + Len(fIndicesSSB2)
                                    + Len(fIndicesBD2) + Len(fIndicesDSB1D)
        /\ \A k \in 1..Len(fIndicesSimple) :
              fIndicesSimple[k][1] \in MergedIndices /\ fIndicesSimple[k][2] \in DamageTypes
        /\ \A v \in MergedIndices :
              /\ CountTagged(fIndicesSimple, v, fIdSSB)
                    = CountOf(fIndicesSSB1, v) + CountOf(fIndicesSSB2, v)
              /\ CountTagged(fIndicesSimple, v, fIdBD)
                    = CountOf(fIndicesBD1, v) + CountOf(fIndicesBD2, v)
              /\ CountTagged(fIndicesSimple, v, fIdDSB) = CountOf(fIndicesDSB1D, v)

\* a pass in which none of the five lists is empty and a bp index holds a BD on both
\* strands
C26_Witness ==
    /\ PassDone
    /\ fIndicesSSB1 # <<>> /\ fIndicesBD1 # <<>> /\ fIndicesSSB2 # <<>> /\ fIndicesBD2 # <<>>
    /\ fIndicesDSB1D # <<>>
    /\ \E v \in MergedIndices : CountTagged(fIndicesSimple, v, fIdBD) = 2

----------------------------------------------------------------------------
\* Claims on the scan of RecordClusteredDamage as a state machine (SpecCluster)

\* the scan is Open while a cluster is being built, and Idle otherwise
Open == buildingCluster
Idle == ~buildingCluster

\* the site under the cursor is within the cluster distance of the previous one
QualifyingGap ==
    fIndicesSimple[site][1] - fIndicesSimple[site - 1][1] <= fThresDistForCluster

\* the simple damages not absorbed by a cluster
SimpleTally == fTotalSSB + fTotalBD + fTotalDSB

\* the damages a cluster holds
Contents(c) == c.numSSB + c.numBD + c.numDSB

\* C27: the scan is a state machine with the states Idle and Open.  It starts Idle.  An
\* iteration goes from Idle to Open on a qualifying gap, absorbing the previous site as
\* the start of the cluster and the current site (two tally decrements); stays Open on
\* a qualifying gap, absorbing the current site (one decrement); goes from Open to Idle
\* otherwise, recording the cluster once; and stays Idle otherwise, absorbing and
\* recording nothing.  The code after the scan records a cluster that is still open,
\* once, and RecordClusteredDamage returns Idle.  So every cluster opened is recorded
\* exactly once and no site is absorbed twice.
C27_ScanStateMachine ==
    [][/\ (pc = "cl_entry" /\ pc' = "cl_loop") => Idle' /\ site' = 2 /\ Contents(cluster') = 0
       /\ (pc = "cl_loop" /\ pc' = "cl_loop") =>
             /\ site' = site + 1
             /\ (Idle /\ Open') =>
                   /\ QualifyingGap
                   /\ cluster'.start = fIndicesSimple[site - 1][1]
                   /\ cluster'.end = fIndicesSimple[site][1]
                   /\ Contents(cluster') = 2
                   /\ SimpleTally' = SimpleTally - 2
                   /\ hRecorded' = hRecorded
             /\ (Open /\ Open') =>
                   /\ QualifyingGap
                   /\ cluster'.start = cluster.start
                   /\ cluster'.end = fIndicesSimple[site][1]
                   /\ Contents(cluster') = Contents(cluster) + 1
                   /\ SimpleTally' = SimpleTally - 1
                   /\ hRecorded' = hRecorded
             /\ (Open /\ Idle') =>
                   /\ ~QualifyingGap
                   /\ hRecorded' = Append(hRecorded, cluster)
                   /\ Contents(cluster') = 0
                   /\ SimpleTally' = SimpleTally
             /\ (Idle /\ Idle') =>
                   /\ ~QualifyingGap
                   /\ hRecorded' = hRecorded
                   /\ Contents(cluster') = 0
                   /\ SimpleTally' = SimpleTally
       /\ (pc = "cl_loop" /\ pc' = "cl_done") =>
             /\ Idle'
             /\ hRecorded' = IF Open THEN Append(hRecorded, cluster) ELSE hRecorded
             /\ fTotalSSB' = fTotalSSB /\ fTotalBD' = fTotalBD
       /\ (pc = "cl_entry" /\ pc' = "cl_done") => Idle' /\ hRecorded' = hRecorded
       /\ pc # "cl_done"]_vars

\* the scan returned after it had recorded a cluster within the list and another one
\* that was still open at the end of the list
C27_Witness ==
    /\ pc = "cl_done"
    /\ Len(hRecorded) = 2
    /\ hRecorded[2].end = fIndicesSimple[Len(fIndicesSimple)][1]
    /\ Idle

----------------------------------------------------------------------------
\* Further claims on the run of events (Spec)

\* the fibres for which a map fibre -> split -> bp -> energy holds a deposit
FibresIn(gen) == {f \in DOMAIN gen : \E sp \in DOMAIN gen[f] : DOMAIN gen[f][sp] # {}}

\* the fibres that hold a deposit on either strand, in the backbone or in a base
FibresHit ==
    FibresIn(fGenVEdepStrand1Backbone) \cup FibresIn(fGenVEdepStrand2Backbone)
        \cup FibresIn(fGenVEdepStrand1Base) \cup FibresIn(fGenVEdepStrand2Base)

\* C28: every fibre that was hit is classified.  When the end-of-event hook of the
\* first event starts its loop over the fibres, every fibre that received a deposit
\* during the event, on either strand and in either residue class, is among the fibres
\* the loop will pass; a fibre hit only on strand 2 or only in a base included.
C28_EveryHitFibrePassed ==
    [][(pc = "hits" /\ pc' = "fibre" /\ nEvents = 0) => FibresHit \subseteq fibresLeft']_vars

----------------------------------------------------------------------------
\* Claims on the loop of RecordDSB1D (SpecPairing, SpecPairingFair)

\* C29: RecordDSB1D terminates.  Each iteration of its loop either erases one site from
\* both SSB lists and leaves the cursors where they are, or leaves the lists as they are
\* and moves exactly one cursor on by one position; no cursor moves backwards; the loop
\* is left as soon as a cursor is at the end of its list; it runs at most as many
\* iterations as the two lists held sites; and RecordDSB1D returns.
C29_PairingTerminates ==
    /\ [][/\ (pc = "dsb_loop" /\ pc' = "dsb_loop") =>
                /\ DSBLoopGoesOn
                /\ \/ /\ Len(fIndicesSSB1') = Len(fIndicesSSB1) - 1
                      /\ Len(fIndicesSSB2') = Len(fIndicesSSB2) - 1
                      /\ site1' = site1 /\ site2' = site2
                   \/ /\ fIndicesSSB1' = fIndicesSSB1 /\ fIndicesSSB2' = fIndicesSSB2
                      /\ \/ site1' = site1 + 1 /\ site2' = site2
                         \/ site1' = site1 /\ site2' = site2 + 1
                /\ hIterations' <= Len(EnteredSSB1) + Len(EnteredSSB2)
          /\ (pc = "dsb_loop" /\ ~DSBLoopGoesOn) => pc' = "dsb_done"
          /\ site1' >= site1 /\ site2' >= site2]_vars
    /\ <>(pc = "dsb_done")

\* RecordDSB1D returned after its loop erased a pair and moved each cursor
C29_Witness ==
    /\ pc = "dsb_done"
    /\ indicesDSB1D # <<>>
    /\ site1 > 1 /\ site2 > 1
    /\ hIterations >= 3


\* C30: pairing is exhaustive.  After RecordDSB1D has returned, no site left in the
\* strand-1 SSB list is within fThresDistForDSB of a site left in the strand-2 SSB
\* list: an SSB reported as simple has no unpaired SSB of the other strand in range.
C30_PairingExhaustive ==
    pc = "dsb_done" =>
        \A k1 \in 1..Len(fIndicesSSB1) : \A k2 \in 1..Len(fIndicesSSB2) :
            Abs(fIndicesSSB2[k2] - fIndicesSSB1[k1]) > fThresDistForDSB

\* RecordDSB1D returned with sites left in both lists, behind and ahead of the cursors,
\* after it had made a pair
C30_Witness ==
    /\ pc = "dsb_done"
    /\ indicesDSB1D # <<>>
    /\ Len(fIndicesSSB1) >= 2 /\ Len(fIndicesSSB2) >= 1
    /\ site1 > 1 /\ site1 <= Len(fIndicesSSB1)
    /\ site2 > 1

====
